---- MODULE Spec2Model ----
(***************************************************************************)
(* Booking flow of the LINE real-estate bot (src/main.py) over the        *)
(* spreadsheet-backed booking store (src/repositories/bookings_repo.py),  *)
(* the listing store (src/repositories/properties_repo.py) and the        *)
(* calendar adapter (src/repositories/calendar_repo.py).                  *)
(*                                                                         *)
(* The handlers are asyncio coroutines of one process.  The repository    *)
(* calls are synchronous, so a handler only gives up control at its       *)
(* awaits: gemini.parse_intent, line_bot_api.get_profile and              *)
(* line_bot_api.reply_message.  Every action below is the code between    *)
(* two consecutive awaits of one handler.  Where a reply is the last      *)
(* statement before the return, the action runs through the reply: the    *)
(* handler touches nothing after it.  The transport's reply call is taken *)
(* to return normally; the calendar API and the profile API may raise on  *)
(* any call.  A handler that has returned is shown once, in pc "done" or  *)
(* "crashed", before its slot is freed: no other coroutine runs between   *)
(* a handler's last resumption and its return.                            *)
(***************************************************************************)
EXTENDS Integers, Sequences, FiniteSets, TLC

\* ---------------------------------------------------------------- bounds
NumHandlers == 2
MaxRows == 2
MaxTime == 15
TickStep == 15
RepoMaxTime == 16
MaxSheet == 2
MaxListings == 22
MaxSweeps == 2
SweepHorizon == 12

\* ------------------------------------------------------- program constants
cache_ttl == 15
PageSize == 9
\* the reminder sweep's marks, tolerance and period, in minutes
Mark2h == 120
Mark24h == 1440
Tolerance == 5
SweepInterval == 10

NoneVal == "None"
NoBid == 0
NoCall == [op |-> "none"]

MsgPropertyNotFound == "Property not found."
MsgTaken == "Time slot already taken. Please choose another time."
MsgTakenCalendar == "Time slot already taken (Calendar). Please choose another time."
MsgBookingConfirmed == "Booking confirmed"
MsgCancelled == "Cancelled."
MsgNotCancelled == "Booking not found or already cancelled."
MsgSpecifyBooking == "Please specify a booking id to cancel."
MsgHelp == "Try: 'browse', ..."
MsgNoProperties == "No properties found. Try broadening your search."
MsgNoMoreResults == "No more results."

\* --------------------------------------------------------------- inputs
Handlers == 1..NumHandlers
Users == {"u1", NoneVal}
PidInputs == {"p1", "px", NoneVal, "p2"}
Dts == {"d1"}
BidInputs == 0..MaxRows
\* who sends a cancel: the user of the stored bookings, nobody the transport
\* names, or somebody else
Requesters == Users \cup {"u2"}
ProfileOutcomes == {"raises", "named"}
CalendarOutcomes == {"ok", "find_raises", "write_raises"}

\* The listing sheet: the system only reads it.  p1 has its own calendar,
\* p2 has none and no default calendar is configured.
PropertyRows ==
    << [id |-> "p1", calendar_id |-> "c1", status |-> "active"],
       [id |-> "p2", calendar_id |-> "", status |-> "inactive"] >>
DefaultCalendarId == NoneVal

VARIABLES
    store,      \* rows of the "bookings" worksheet, in sheet order
    cache,      \* BookingsRepository._cache: << >> is None, <<rows>> a snapshot
    cache_ts,   \* BookingsRepository._cache_ts
    now,        \* time.time()
    calendar,   \* events of the calendar service
    pc,         \* per handler: the await it is suspended at
    loc,        \* per handler: the event and the handler's local variables
    obs,        \* per handler: what an observer of this handling has seen
    rowCheck,   \* per booking row: number of sheet rows when its handler ran exists()
    serial,     \* TRUE when the host dispatches one event at a time
    call        \* the function-level call applied last, its inputs and its result

vars == << store, cache, cache_ts, now, calendar, pc, loc, obs, rowCheck, serial, call >>

Min(S) == CHOOSE x \in S : \A y \in S : x <= y

NonCancelled == {"requested", "confirmed"}

\* ------------------------------------------------------ PropertiesRepository
get_by_id(pid) ==
    LET hits == {i \in DOMAIN PropertyRows : PropertyRows[i].id = pid}
    IN  IF hits = {} THEN NoneVal ELSE PropertyRows[Min(hits)].id

get_calendar_id(pid) ==
    LET hits == {i \in DOMAIN PropertyRows : PropertyRows[i].id = pid}
    IN  IF hits # {} /\ PropertyRows[Min(hits)].calendar_id # ""
        THEN PropertyRows[Min(hits)].calendar_id
        ELSE DefaultCalendarId

\* -------------------------------------------------------- BookingsRepository
World == [store |-> store, cache |-> cache, cache_ts |-> cache_ts]

\* Variant of read_all that still serves the snapshot at the TTL itself.
read_all_ServesAtTTL(w, t) ==
    IF w.cache # << >> /\ t - w.cache_ts <= cache_ttl
    THEN [rows |-> w.cache[1], w |-> w]
    ELSE [rows |-> w.store, w |-> [w EXCEPT !.cache = << w.store >>, !.cache_ts = t]]

\* _read_all: the cached snapshot while it is younger than the TTL, else a
\* read of the sheet that refills the cache.
read_all(w, t) ==
    IF w.cache # << >> /\ t - w.cache_ts < cache_ttl
    THEN [rows |-> w.cache[1], w |-> w]
    ELSE [rows |-> w.store, w |-> [w EXCEPT !.cache = << w.store >>, !.cache_ts = t]]

\* Variant of RowMatches that takes only confirmed rows for occupied.
RowMatches_ConfirmedOnly(r, pid, dt) ==
    /\ r.property_id = pid
    /\ r.datetime = dt
    /\ r.status = "confirmed"

RowMatches(r, pid, dt) ==
    /\ r.property_id = pid
    /\ r.datetime = dt
    /\ r.status \in NonCancelled

exists(w, t, pid, dt) ==
    LET ra == read_all(w, t)
    IN  [found |-> \E i \in DOMAIN ra.rows : RowMatches(ra.rows[i], pid, dt),
         w |-> ra.w]

\* Variant of create that writes the row as confirmed.
create_AsConfirmed(w, user_id, display_name, pid, dt) ==
    LET row == [booking_id |-> Len(w.store) + 1,
                user_id |-> user_id,
                user_display_name |-> display_name,
                property_id |-> pid,
                datetime |-> dt,
                status |-> "confirmed"]
    IN  [w EXCEPT !.store = Append(w.store, row), !.cache = << >>]

\* Variant of create that leaves the cache as it was.
create_KeepsCache(w, user_id, display_name, pid, dt) ==
    LET row == [booking_id |-> Len(w.store) + 1,
                user_id |-> user_id,
                user_display_name |-> display_name,
                property_id |-> pid,
                datetime |-> dt,
                status |-> "requested"]
    IN  [w EXCEPT !.store = Append(w.store, row)]

create(w, user_id, display_name, pid, dt) ==
    LET row == [booking_id |-> Len(w.store) + 1,
                user_id |-> user_id,
                user_display_name |-> display_name,
                property_id |-> pid,
                datetime |-> dt,
                status |-> "requested"]
    IN  [w EXCEPT !.store = Append(w.store, row), !.cache = << >>]

\* Variant of cancel that empties the cache whether or not it found the row.
cancel_AlwaysBustsCache(w, bid) ==
    LET hits == {i \in DOMAIN w.store : w.store[i].booking_id = bid}
    IN  IF hits = {}
        THEN [ok |-> FALSE, w |-> [w EXCEPT !.cache = << >>]]
        ELSE [ok |-> TRUE,
              w |-> [w EXCEPT !.store[Min(hits)].status = "cancelled",
                              !.cache = << >>]]

cancel(w, bid) ==
    LET hits == {i \in DOMAIN w.store : w.store[i].booking_id = bid}
    IN  IF hits = {}
        THEN [ok |-> FALSE, w |-> w]
        ELSE [ok |-> TRUE,
              w |-> [w EXCEPT !.store[Min(hits)].status = "cancelled",
                              !.cache = << >>]]

list_for_user(w, t, user_id) ==
    LET ra == read_all(w, t)
    IN  [rows |-> SelectSeq(ra.rows, LAMBDA r : r.user_id = user_id), w |-> ra.w]

find_by_id(w, t, bid) ==
    LET ra == read_all(w, t)
        hits == {i \in DOMAIN ra.rows : ra.rows[i].booking_id = bid}
    IN  [row |-> IF hits = {} THEN << >> ELSE << ra.rows[Min(hits)] >>,
         w |-> ra.w]

\* -------------------------------------------------------- CalendarRepository
\* find_event returns the id of the first event the service lists for the
\* marker "pid:<property> dt:<datetime>"; the service fixes no order, so any
\* matching event may be the first.  0 stands for None.
find_event(cal, cid, pid, dt) ==
    LET ids == {e.id : e \in {x \in cal : x.calendar_id = cid /\ x.pid = pid /\ x.dt = dt}}
    IN  IF ids = {} THEN {0} ELSE ids

\* The service gives the inserted event an id no other event of the calendar
\* has; the handlers never hold an event id across an await, so the smallest
\* free id stands for it.
create_booking_event(cal, cid, pid, dt) ==
    LET id == Min({n \in 1..(Cardinality(cal) + 1) : \A e \in cal : e.id # n})
    IN  cal \cup {[id |-> id, calendar_id |-> cid, pid |-> pid, dt |-> dt]}

delete_event(cal, cid, ev_id) ==
    {e \in cal : ~(e.calendar_id = cid /\ e.id = ev_id)}


\* ------------------------------------------------------------ handler state
IdleLoc ==
    [kind |-> "none", pid |-> NoneVal, dt |-> NoneVal, user_id |-> NoneVal,
     bid |-> NoBid, calendar_id |-> NoneVal, display_name |-> "",
     msg |-> "", booked |-> FALSE]

\* What an observer records of one handling: the external calls in the order
\* they were made, the facts of the sheet and the calendar at the moment the
\* handler looked, the side effects that raised, the row it wrote and the
\* reply the user received.
IdleObs ==
    [steps |-> << >>, conflict |-> FALSE, cancelledOnly |-> FALSE,
     calConflict |-> FALSE, fails |-> {}, checkLen |-> 0, wrote |-> 0, reply |-> "", replies |-> 0,
     known |-> FALSE, wasCancelled |-> FALSE, mirror |-> FALSE, ok |-> FALSE]

InitialStores ==
    { << >>,
      << [booking_id |-> 1, user_id |-> "u1", user_display_name |-> "",
          property_id |-> "p1", datetime |-> "d1", status |-> "confirmed"] >> }

InitCommon ==
    /\ store \in InitialStores
    /\ cache = << >>
    /\ cache_ts = 0
    /\ now = 0
    /\ calendar = {}
    /\ pc = [h \in Handlers |-> "idle"]
    /\ loc = [h \in Handlers |-> IdleLoc]
    /\ obs = [h \in Handlers |-> IdleObs]
    /\ rowCheck = [i \in DOMAIN store |-> 0]

Init == InitCommon /\ serial = FALSE /\ call = NoCall

InitSeq == InitCommon /\ serial = TRUE /\ call = NoCall

SetWorld(w) ==
    /\ store' = w.store
    /\ cache' = w.cache
    /\ cache_ts' = w.cache_ts

\* The host starts the handler of a new event; when it serialises events it
\* does so only after the previous handler has returned.  The coroutines are
\* interchangeable, so a new one always takes the lowest free slot.
Returning == {h \in Handlers : pc[h] \in {"done", "crashed"}}

CanDispatch(h) ==
    /\ Returning = {}
    /\ pc[h] = "idle"
    /\ \A g \in Handlers : g < h => pc[g] # "idle"
    /\ serial => \A g \in Handlers : pc[g] = "idle"

\* Bound of the model: a handling that is going to append a row starts only
\* while the sheet, with the rows still to be written, is below MaxRows.
Unwritten == Cardinality({h \in Handlers : pc[h] = "profile"})

HasRoom == Len(store) + Unwritten < MaxRows

\* ---------------------------------------------- _handle_postback: book_pick
\* Variant of book_pick_check that asks the sheet only for properties that
\* have no calendar.
book_pick_check_CalendarOnly(w, t, cal, pid, dt, calUp) ==
    LET prop == IF pid # NoneVal THEN get_by_id(pid) ELSE NoneVal
        ex == exists(w, t, pid, dt)
        cid == get_calendar_id(pid)
    IN  IF prop = NoneVal
        THEN [outcome |-> "not_found", w |-> w, calendar_id |-> NoneVal]
        ELSE IF cid = NoneVal
        THEN [outcome |-> IF ex.found THEN "taken" ELSE "pass", w |-> ex.w, calendar_id |-> cid]
        ELSE IF ~calUp
        THEN [outcome |-> "raised", w |-> w, calendar_id |-> cid]
        ELSE IF find_event(cal, cid, pid, dt) # {0}
        THEN [outcome |-> "taken_calendar", w |-> w, calendar_id |-> cid]
        ELSE [outcome |-> "pass", w |-> w, calendar_id |-> cid]

\* Variant of book_pick_check without the listing lookup.
book_pick_check_NoLookup(w, t, cal, pid, dt, calUp) ==
    LET ex == exists(w, t, pid, dt)
        cid == get_calendar_id(pid)
    IN  IF ex.found
        THEN [outcome |-> "taken", w |-> ex.w, calendar_id |-> NoneVal]
        ELSE IF cid = NoneVal
        THEN [outcome |-> "pass", w |-> ex.w, calendar_id |-> cid]
        ELSE IF ~calUp
        THEN [outcome |-> "raised", w |-> ex.w, calendar_id |-> cid]
        ELSE IF find_event(cal, cid, pid, dt) # {0}
        THEN [outcome |-> "taken_calendar", w |-> ex.w, calendar_id |-> cid]
        ELSE [outcome |-> "pass", w |-> ex.w, calendar_id |-> cid]

\* Variant of book_pick_check without the calendar check.
book_pick_check_NoCalendar(w, t, cal, pid, dt, calUp) ==
    LET prop == IF pid # NoneVal THEN get_by_id(pid) ELSE NoneVal
        ex == exists(w, t, pid, dt)
    IN  IF prop = NoneVal
        THEN [outcome |-> "not_found", w |-> w, calendar_id |-> NoneVal]
        ELSE IF ex.found
        THEN [outcome |-> "taken", w |-> ex.w, calendar_id |-> NoneVal]
        ELSE [outcome |-> "pass", w |-> ex.w, calendar_id |-> get_calendar_id(pid)]

\* main.py 302-329, the synchronous part up to the first await: listing
\* lookup, booking-store check, calendar check.  calUp = FALSE is a calendar
\* API call that raises.
book_pick_check(w, t, cal, pid, dt, calUp) ==
    LET prop == IF pid # NoneVal THEN get_by_id(pid) ELSE NoneVal
        ex == exists(w, t, pid, dt)
        cid == get_calendar_id(pid)
    IN  IF prop = NoneVal
        THEN [outcome |-> "not_found", w |-> w, calendar_id |-> NoneVal]
        ELSE IF ex.found
        THEN [outcome |-> "taken", w |-> ex.w, calendar_id |-> NoneVal]
        ELSE IF cid = NoneVal
        THEN [outcome |-> "pass", w |-> ex.w, calendar_id |-> cid]
        ELSE IF ~calUp
        THEN [outcome |-> "raised", w |-> ex.w, calendar_id |-> cid]
        ELSE IF find_event(cal, cid, pid, dt) # {0}
        THEN [outcome |-> "taken_calendar", w |-> ex.w, calendar_id |-> cid]
        ELSE [outcome |-> "pass", w |-> ex.w, calendar_id |-> cid]

CheckSteps(outcome, cid) ==
    CASE outcome = "not_found" -> << "get_by_id" >>
      [] outcome = "taken" -> << "get_by_id", "exists" >>
      [] cid = NoneVal -> << "get_by_id", "exists" >>
      [] OTHER -> << "get_by_id", "exists", "find_event" >>

PairRows(pid, dt) ==
    {i \in DOMAIN store : store[i].property_id = pid /\ store[i].datetime = dt}

BookPickStart(h) ==
    /\ CanDispatch(h)
    /\ \E pid \in PidInputs, dt \in Dts, user \in Users, calUp \in BOOLEAN :
         LET c == book_pick_check(World, now, calendar, pid, dt, calUp)
             l0 == [IdleLoc EXCEPT !.kind = "book_pick", !.pid = pid, !.dt = dt,
                                   !.user_id = user, !.calendar_id = c.calendar_id]
             o0 == [IdleObs EXCEPT
                      !.steps = CheckSteps(c.outcome, c.calendar_id),
                      !.conflict = \E i \in PairRows(pid, dt) : store[i].status \in NonCancelled,
                      !.cancelledOnly = /\ PairRows(pid, dt) # {}
                                        /\ \A i \in PairRows(pid, dt) : store[i].status = "cancelled",
                      !.calConflict = /\ get_calendar_id(pid) # NoneVal
                                      /\ find_event(calendar, get_calendar_id(pid), pid, dt) # {0},
                      !.fails = IF c.outcome = "raised" THEN {"find_event"} ELSE {}]
         IN  CASE c.outcome = "not_found" ->
                    /\ SetWorld(c.w)
                    /\ pc' = [pc EXCEPT ![h] = "done"]
                    /\ loc' = [loc EXCEPT ![h] = [l0 EXCEPT !.msg = MsgPropertyNotFound]]
                    /\ obs' = [obs EXCEPT ![h] = [o0 EXCEPT !.reply = MsgPropertyNotFound, !.replies = @ + 1]]
                    /\ UNCHANGED rowCheck
               [] c.outcome = "taken" ->
                    /\ SetWorld(c.w)
                    /\ pc' = [pc EXCEPT ![h] = "done"]
                    /\ loc' = [loc EXCEPT ![h] = [l0 EXCEPT !.msg = MsgTaken]]
                    /\ obs' = [obs EXCEPT ![h] = [o0 EXCEPT !.reply = MsgTaken, !.replies = @ + 1]]
                    /\ UNCHANGED rowCheck
               [] c.outcome = "taken_calendar" ->
                    /\ SetWorld(c.w)
                    /\ pc' = [pc EXCEPT ![h] = "done"]
                    /\ loc' = [loc EXCEPT ![h] = [l0 EXCEPT !.msg = MsgTakenCalendar]]
                    /\ obs' = [obs EXCEPT ![h] = [o0 EXCEPT !.reply = MsgTakenCalendar, !.replies = @ + 1]]
                    /\ UNCHANGED rowCheck
               [] c.outcome = "raised" ->
                    \* find_event is called outside any try block: the exception
                    \* leaves the handler.
                    /\ SetWorld(c.w)
                    /\ pc' = [pc EXCEPT ![h] = "crashed"]
                    /\ loc' = [loc EXCEPT ![h] = l0]
                    /\ obs' = [obs EXCEPT ![h] = o0]
                    /\ UNCHANGED rowCheck
               [] c.outcome = "pass" /\ user # NoneVal ->
                    \* await line_bot_api.get_profile(...)
                    /\ HasRoom
                    /\ SetWorld(c.w)
                    /\ pc' = [pc EXCEPT ![h] = "profile"]
                    /\ loc' = [loc EXCEPT ![h] = l0]
                    /\ obs' = [obs EXCEPT ![h] = [o0 EXCEPT !.steps = Append(@, "get_profile"),
                                                           !.checkLen = Len(store)]]
                    /\ UNCHANGED rowCheck
               [] OTHER ->
                    \* no user id: no profile lookup, the row is written at once
                    LET w2 == create(c.w, user, "", pid, dt)
                    IN  /\ HasRoom
                        /\ SetWorld(w2)
                        /\ pc' = [pc EXCEPT ![h] = "reply"]
                        /\ loc' = [loc EXCEPT ![h] = [l0 EXCEPT !.msg = MsgBookingConfirmed,
                                                               !.booked = TRUE]]
                        /\ obs' = [obs EXCEPT ![h] = [o0 EXCEPT !.steps = Append(@, "create"),
                                                               !.wrote = Len(w2.store)]]
                        /\ rowCheck' = Append(rowCheck, Len(store))
    /\ UNCHANGED << now, calendar, serial, call >>

\* Variant of ProfileReturn in which the exception of get_profile leaves the
\* handler.
ProfileReturn_Propagates(h) ==
    /\ Returning = {}
    /\ pc[h] = "profile"
    /\ \E out \in ProfileOutcomes :
         IF out = "raises"
         THEN /\ pc' = [pc EXCEPT ![h] = "crashed"]
              /\ obs' = [obs EXCEPT ![h].fails = @ \cup {"get_profile"}]
              /\ UNCHANGED << store, cache, cache_ts, loc, rowCheck >>
         ELSE LET w2 == create(World, loc[h].user_id, "N", loc[h].pid, loc[h].dt)
              IN  /\ SetWorld(w2)
                  /\ pc' = [pc EXCEPT ![h] = "reply"]
                  /\ loc' = [loc EXCEPT ![h].display_name = "N",
                                        ![h].msg = MsgBookingConfirmed,
                                        ![h].booked = TRUE]
                  /\ obs' = [obs EXCEPT ![h].steps = Append(@, "create"),
                                        ![h].wrote = Len(w2.store)]
                  /\ rowCheck' = Append(rowCheck, obs[h].checkLen)
    /\ UNCHANGED << now, calendar, serial, call >>

\* main.py 331-353: get_profile returns or raises (swallowed), the row is
\* written and the confirmation reply is requested.
ProfileReturn(h) ==
    /\ Returning = {}
    /\ pc[h] = "profile"
    /\ \E out \in ProfileOutcomes :
         LET name == IF out = "named" THEN "N" ELSE ""
             w2 == create(World, loc[h].user_id, name, loc[h].pid, loc[h].dt)
         IN  /\ SetWorld(w2)
             /\ pc' = [pc EXCEPT ![h] = "reply"]
             /\ loc' = [loc EXCEPT ![h].display_name = name,
                                   ![h].msg = MsgBookingConfirmed,
                                   ![h].booked = TRUE]
             /\ obs' = [obs EXCEPT ![h].steps = Append(@, "create"),
                                   ![h].wrote = Len(w2.store),
                                   ![h].fails = IF out = "raises" THEN @ \cup {"get_profile"} ELSE @]
             /\ rowCheck' = Append(rowCheck, obs[h].checkLen)
    /\ UNCHANGED << now, calendar, serial, call >>

\* The awaited reply_message of a booking confirmation returns and the
\* handler mirrors the booking into the calendar (main.py 354-366).
ReplyReturn(h) ==
    /\ Returning = {}
    /\ pc[h] = "reply"
    /\ pc' = [pc EXCEPT ![h] = "done"]
    /\ IF loc[h].booked /\ loc[h].calendar_id # NoneVal
       THEN \E calUp \in BOOLEAN :
              IF calUp
              THEN /\ calendar' = create_booking_event(calendar,
                                     loc[h].calendar_id, loc[h].pid, loc[h].dt)
                   /\ obs' = [obs EXCEPT ![h].reply = loc[h].msg, ![h].replies = @ + 1,
                                         ![h].steps = Append(@, "create_booking_event")]
              ELSE /\ UNCHANGED calendar
                   /\ obs' = [obs EXCEPT ![h].reply = loc[h].msg, ![h].replies = @ + 1,
                                         ![h].steps = Append(@, "create_booking_event"),
                                         ![h].fails = @ \cup {"create_booking_event"}]
       ELSE /\ UNCHANGED calendar
            /\ obs' = [obs EXCEPT ![h].reply = loc[h].msg, ![h].replies = @ + 1]
    /\ UNCHANGED << store, cache, cache_ts, now, loc, rowCheck, serial, call >>

\* ------------------------------------------------------------- cancellation
RowOf(bid) ==
    LET hits == {i \in DOMAIN store : store[i].booking_id = bid}
    IN  IF hits = {} THEN 0 ELSE Min(hits)

HasMirror(i) ==
    /\ i # 0
    /\ get_calendar_id(store[i].property_id) # NoneVal
    /\ find_event(calendar, get_calendar_id(store[i].property_id),
                  store[i].property_id, store[i].datetime) # {0}

CancelObs(bid) ==
    [IdleObs EXCEPT !.known = RowOf(bid) # 0,
                    !.wasCancelled = RowOf(bid) # 0 /\ store[RowOf(bid)].status = "cancelled",
                    !.mirror = HasMirror(RowOf(bid))]

\* main.py 422-446, the cancel button: cancel the row, then look the booking
\* up again and delete its calendar mirror.  The calendar part sits in a try
\* block.  calOut names the calendar call that raises, if any.
CancelButton(h) ==
    /\ CanDispatch(h)
    /\ \E bid \in BidInputs, calOut \in CalendarOutcomes, user \in Requesters :
         LET c == IF bid # NoBid THEN cancel(World, bid) ELSE [ok |-> FALSE, w |-> World]
             f == find_by_id(c.w, now, bid)
             w2 == IF bid # NoBid THEN f.w ELSE c.w
             b == IF bid # NoBid /\ f.row # << >> THEN f.row[1] ELSE [property_id |-> NoneVal, datetime |-> NoneVal]
             cid == IF b.property_id # NoneVal THEN get_calendar_id(b.property_id) ELSE NoneVal
             useCal == bid # NoBid /\ cid # NoneVal /\ b.datetime # NoneVal
             m == IF c.ok THEN MsgCancelled ELSE MsgNotCancelled
             l0 == [IdleLoc EXCEPT !.kind = "cancel_button", !.bid = bid, !.calendar_id = cid,
                                   !.user_id = user, !.msg = m]
             o0 == [CancelObs(bid) EXCEPT !.ok = c.ok, !.reply = m, !.replies = @ + 1,
                                          !.steps = IF bid # NoBid THEN << "cancel", "find_by_id" >> ELSE << >>]
         IN  /\ SetWorld(w2)
             /\ pc' = [pc EXCEPT ![h] = "done"]
             /\ loc' = [loc EXCEPT ![h] = l0]
             /\ IF ~useCal
                THEN /\ calOut = "ok"
                     /\ obs' = [obs EXCEPT ![h] = o0]
                     /\ UNCHANGED calendar
                ELSE IF calOut = "find_raises"
                THEN /\ obs' = [obs EXCEPT ![h] = [o0 EXCEPT !.steps = Append(@, "find_event"),
                                                            !.fails = {"find_event"}]]
                     /\ UNCHANGED calendar
                ELSE \E ev_id \in find_event(calendar, cid, b.property_id, b.datetime) :
                       IF ev_id = 0
                       THEN /\ calOut = "ok"
                            /\ obs' = [obs EXCEPT ![h] = [o0 EXCEPT !.steps = Append(@, "find_event")]]
                            /\ UNCHANGED calendar
                       ELSE IF calOut = "write_raises"
                       THEN /\ obs' = [obs EXCEPT ![h] = [o0 EXCEPT
                                         !.steps = @ \o << "find_event", "delete_event" >>,
                                         !.fails = {"delete_event"}]]
                            /\ UNCHANGED calendar
                       ELSE /\ obs' = [obs EXCEPT ![h] = [o0 EXCEPT
                                         !.steps = @ \o << "find_event", "delete_event" >>]]
                            /\ calendar' = delete_event(calendar, cid, ev_id)
    /\ UNCHANGED << now, rowCheck, serial, call >>

\* ---------------------------------------------------------------- _handle_text
\* main.py 135-140: the handler awaits gemini.parse_intent.
TextStart(h) ==
    /\ CanDispatch(h)
    /\ pc' = [pc EXCEPT ![h] = "nlu"]
    /\ loc' = [loc EXCEPT ![h] = [IdleLoc EXCEPT !.kind = "text"]]
    /\ obs' = [obs EXCEPT ![h] = IdleObs]
    /\ UNCHANGED << store, cache, cache_ts, now, calendar, rowCheck, serial, call >>

\* Variant of TextCancel that cancels only for the user of the booking.
TextCancel_OwnerOnly(h) ==
    /\ Returning = {}
    /\ pc[h] = "nlu"
    /\ \E bid \in BidInputs, user \in Requesters :
         LET own == bid # NoBid /\ \E i \in DOMAIN store :
                        store[i].booking_id = bid /\ store[i].user_id = user
             c == IF own THEN cancel(World, bid) ELSE [ok |-> FALSE, w |-> World]
             m == IF bid = NoBid THEN MsgSpecifyBooking
                  ELSE IF c.ok THEN MsgCancelled ELSE MsgNotCancelled
         IN  /\ SetWorld(c.w)
             /\ pc' = [pc EXCEPT ![h] = "done"]
             /\ loc' = [loc EXCEPT ![h].kind = "cancel_text", ![h].bid = bid,
                                   ![h].user_id = user, ![h].msg = m]
             /\ obs' = [obs EXCEPT ![h] = [CancelObs(bid) EXCEPT !.ok = c.ok, !.reply = m, !.replies = @ + 1,
                                             !.steps = IF bid # NoBid THEN << "cancel" >> ELSE << >>]]
    /\ UNCHANGED << now, calendar, rowCheck, serial, call >>

\* Variant of TextCancel whose branch for a missing id does not return: the
\* handler goes on to cancel and replies a second time.
TextCancel_NoReturn(h) ==
    /\ Returning = {}
    /\ pc[h] = "nlu"
    /\ \E bid \in BidInputs, user \in Requesters :
         LET c == IF bid # NoBid THEN cancel(World, bid) ELSE [ok |-> FALSE, w |-> World]
             m == IF c.ok THEN MsgCancelled ELSE MsgNotCancelled
         IN  /\ SetWorld(c.w)
             /\ pc' = [pc EXCEPT ![h] = "done"]
             /\ loc' = [loc EXCEPT ![h].kind = "cancel_text", ![h].bid = bid,
                                   ![h].user_id = user, ![h].msg = m]
             /\ obs' = [obs EXCEPT ![h] = [CancelObs(bid) EXCEPT !.ok = c.ok, !.reply = m,
                                             !.replies = @ + (IF bid = NoBid THEN 2 ELSE 1),
                                             !.steps = IF bid # NoBid THEN << "cancel" >> ELSE << >>]]
    /\ UNCHANGED << now, calendar, rowCheck, serial, call >>

\* main.py 256-274: the intent came back as cancel.  The calendar is not
\* touched on this path.
TextCancel(h) ==
    /\ Returning = {}
    /\ pc[h] = "nlu"
    /\ \E bid \in BidInputs, user \in Requesters :
         LET c == IF bid # NoBid THEN cancel(World, bid) ELSE [ok |-> FALSE, w |-> World]
             m == IF bid = NoBid THEN MsgSpecifyBooking
                  ELSE IF c.ok THEN MsgCancelled ELSE MsgNotCancelled
         IN  /\ SetWorld(c.w)
             /\ pc' = [pc EXCEPT ![h] = "done"]
             /\ loc' = [loc EXCEPT ![h].kind = "cancel_text", ![h].bid = bid,
                                   ![h].user_id = user, ![h].msg = m]
             /\ obs' = [obs EXCEPT ![h] = [CancelObs(bid) EXCEPT !.ok = c.ok, !.reply = m, !.replies = @ + 1,
                                             !.steps = IF bid # NoBid THEN << "cancel" >> ELSE << >>]]
    /\ UNCHANGED << now, calendar, rowCheck, serial, call >>

\* main.py 276-284: an intent no branch takes gets the help text.
TextFallback(h) ==
    /\ Returning = {}
    /\ pc[h] = "nlu"
    /\ pc' = [pc EXCEPT ![h] = "done"]
    /\ loc' = [loc EXCEPT ![h].kind = "fallback", ![h].msg = MsgHelp]
    /\ obs' = [obs EXCEPT ![h].reply = MsgHelp, ![h].replies = @ + 1]
    /\ UNCHANGED << store, cache, cache_ts, now, calendar, rowCheck, serial, call >>

\* ------------------------------------------------------------------- the host
\* The handler has returned (or its exception has reached the endpoint); the
\* coroutine is gone and the slot can take the next event.
Return(h) ==
    /\ pc[h] \in {"done", "crashed"}
    /\ pc' = [pc EXCEPT ![h] = "idle"]
    /\ loc' = [loc EXCEPT ![h] = IdleLoc]
    /\ obs' = [obs EXCEPT ![h] = IdleObs]
    /\ UNCHANGED << store, cache, cache_ts, now, calendar, rowCheck, serial, call >>

Tick ==
    /\ Returning = {}
    /\ now < MaxTime
    /\ now' = now + TickStep
    /\ UNCHANGED << store, cache, cache_ts, calendar, pc, loc, obs, rowCheck, serial, call >>

Next ==
    \/ \E h \in Handlers : BookPickStart(h)
    \/ \E h \in Handlers : ProfileReturn(h)
    \/ \E h \in Handlers : ReplyReturn(h)
    \/ \E h \in Handlers : CancelButton(h)
    \/ \E h \in Handlers : TextStart(h)
    \/ \E h \in Handlers : TextCancel(h)
    \/ \E h \in Handlers : TextFallback(h)
    \/ \E h \in Handlers : Return(h)
    \/ Tick

Spec == Init /\ [][Next]_vars

SpecSeq == InitSeq /\ [][Next]_vars

\* --------------------------------------------------------------- properties
SamePair(i, j) ==
    /\ store[i].property_id = store[j].property_id
    /\ store[i].datetime = store[j].datetime

Live(i) == store[i].status \in NonCancelled

BookPicks == {h \in Handlers : loc[h].kind = "book_pick"}

Cancels == {h \in Handlers : loc[h].kind \in {"cancel_button", "cancel_text"}}

StepSet(h) == {obs[h].steps[k] : k \in DOMAIN obs[h].steps}

\* C1: with events handled one at a time by the only writer, the sheet never
\* holds two rows with status requested or confirmed for the same
\* (property_id, datetime) pair.
C1_AtMostOneLiveBooking ==
    \A i, j \in DOMAIN store : (i < j /\ SamePair(i, j)) => ~(Live(i) /\ Live(j))

\* A pair was booked, cancelled and booked again, one event at a time.
C1_Witness ==
    /\ serial
    /\ \E i, j \in DOMAIN store :
         /\ i < j
         /\ SamePair(i, j)
         /\ store[i].status = "cancelled"
         /\ store[j].status = "requested"

\* C2: concurrent book_pick handlers are not mutually excluded.  Whenever two
\* live rows share a pair, the handler of the later row had made its
\* existence check before the earlier row was written: the check and the
\* write are separated by the await of the profile lookup.
C2_DoubleBookingByRace ==
    \A i, j \in DOMAIN store :
        (i < j /\ SamePair(i, j) /\ Live(i) /\ Live(j)) => rowCheck[j] < i

\* Two live bookings for the same pair.
C2_Witness ==
    /\ ~serial
    /\ \E i, j \in DOMAIN store : i < j /\ SamePair(i, j) /\ Live(i) /\ Live(j)

\* C3: a book_pick for a pair that has a requested or confirmed row is
\* refused: the handler replies that the slot is taken and returns, the sheet
\* and the calendar stay as they were.
C3_ConflictRefused ==
    [][\A h \in Handlers :
         ( /\ pc[h] = "idle"
           /\ loc'[h].kind = "book_pick"
           /\ \E i \in DOMAIN store :
                /\ store[i].property_id = loc'[h].pid
                /\ store[i].datetime = loc'[h].dt
                /\ Live(i) )
         => ( /\ pc'[h] = "done"
              /\ obs'[h].reply = MsgTaken
              /\ store' = store
              /\ calendar' = calendar )]_vars

\* A handler has refused a pair whose row was written by an earlier handler.
C3_Witness ==
    \E h \in BookPicks :
        /\ pc[h] = "done"
        /\ obs[h].conflict
        /\ obs[h].reply = MsgTaken
        /\ \E i \in DOMAIN store :
             /\ store[i].property_id = loc[h].pid
             /\ store[i].datetime = loc[h].dt
             /\ store[i].status = "requested"

\* C4: once every booking of a pair has been cancelled (by the text command
\* or by the cancel button), a later book_pick for the pair is confirmed,
\* also for a property with a calendar that mirrored the first booking.
C4_RebookAfterCancel ==
    \A h \in BookPicks :
        (pc[h] = "done" /\ obs[h].cancelledOnly) => obs[h].reply = MsgBookingConfirmed

\* C5: cancelling a booking whose row is already cancelled gives a negative
\* result and the reply "not found or already cancelled".
C5_CancelOfCancelledIsNegative ==
    \A h \in Cancels :
        (pc[h] = "done" /\ obs[h].wasCancelled)
            => (~obs[h].ok /\ obs[h].reply = MsgNotCancelled)

UnknownCancel(h) ==
    /\ pc[h] # "done"
    /\ pc'[h] = "done"
    /\ loc'[h].kind \in {"cancel_button", "cancel_text"}
    /\ loc'[h].bid # NoBid
    /\ RowOf(loc'[h].bid) = 0

\* C6 as stated: cancelling an id that is not in the sheet, by text or by
\* button, gives a negative result and leaves the rows, the bookings cache
\* and the calendar unchanged.
C6_UnknownCancelChangesNothing ==
    [][\A h \in Handlers :
         UnknownCancel(h)
         => ( /\ ~obs'[h].ok
              /\ obs'[h].reply = MsgNotCancelled
              /\ store' = store
              /\ calendar' = calendar
              /\ cache' = cache
              /\ cache_ts' = cache_ts )]_vars

\* C6 amended: cancelling an id that is not in the sheet gives a negative
\* result and leaves the rows and the calendar unchanged; the text command
\* leaves the bookings cache unchanged too, the cancel button either leaves
\* it unchanged or refills it, through its find_by_id read, with the rows of
\* the sheet.
C6_UnknownCancelKeepsRows ==
    [][\A h \in Handlers :
         UnknownCancel(h)
         => ( /\ ~obs'[h].ok
              /\ obs'[h].reply = MsgNotCancelled
              /\ store' = store
              /\ calendar' = calendar
              /\ \/ cache' = cache /\ cache_ts' = cache_ts
                 \/ /\ loc'[h].kind = "cancel_button"
                    /\ cache' = << store >>
                    /\ cache_ts' = now )]_vars

\* The cancel button was pressed for an id the sheet does not hold, while the
\* sheet holds other rows, and the cache was refilled.
C6_Witness ==
    \E h \in Cancels :
        /\ pc[h] = "done"
        /\ loc[h].kind = "cancel_button"
        /\ loc[h].bid # NoBid
        /\ ~obs[h].known
        /\ obs[h].reply = MsgNotCancelled
        /\ store # << >>
        /\ cache = << store >>
        /\ cache_ts = now
        /\ now > 0

\* C7: a cancellation that takes effect for a booking whose calendar mirror
\* exists is followed by an attempt to delete the mirror, on the text path
\* and on the button path.
C7_MirrorDeletionAttempted ==
    \A h \in Cancels :
        (pc[h] = "done" /\ obs[h].ok /\ obs[h].mirror) => "find_event" \in StepSet(h)

\* C8: a calendar lookup that raises during the conflict check of a book_pick
\* counts as "no conflict": the row is written and the confirmation is sent.
C8_LookupFailureIsNoConflict ==
    \A h \in BookPicks :
        ("find_event" \in obs[h].fails /\ pc[h] \in {"done", "crashed"})
            => (obs[h].wrote # 0 /\ obs[h].reply = MsgBookingConfirmed)

BestEffort == {"get_profile", "create_booking_event", "delete_event"}

\* C9: a best-effort side effect that fails neither blocks nor reverses the
\* primary action.  After a failed profile lookup or calendar insert the
\* booking row is in the sheet with status requested and the confirmation is
\* the reply; after a failed calendar lookup or delete of a cancellation the
\* row is cancelled and the reply is the one of the cancellation's result.
C9_SideEffectFailureHarmless ==
    /\ \A h \in BookPicks :
         (obs[h].fails \cap BestEffort # {})
         => ( /\ pc[h] \in {"reply", "done"}
              /\ obs[h].wrote \in DOMAIN store
              /\ store[obs[h].wrote].status = "requested"
              /\ store[obs[h].wrote].property_id = loc[h].pid
              /\ store[obs[h].wrote].datetime = loc[h].dt
              /\ loc[h].msg = MsgBookingConfirmed
              /\ pc[h] = "done" => obs[h].reply = MsgBookingConfirmed )
    /\ \A h \in Cancels :
         (obs[h].fails # {})
         => ( /\ pc[h] = "done"
              /\ obs[h].known
              /\ obs[h].ok
              /\ store[RowOf(loc[h].bid)].status = "cancelled"
              /\ obs[h].reply = MsgCancelled )

\* A booking went through although both the profile lookup and the calendar
\* insert raised.
C9_Witness ==
    \E h \in BookPicks :
        /\ pc[h] = "done"
        /\ obs[h].fails = {"get_profile", "create_booking_event"}
        /\ obs[h].reply = MsgBookingConfirmed

StepRank(st) ==
    CASE st = "get_by_id" -> 0
      [] st = "exists" -> 1
      [] st = "find_event" -> 2
      [] st = "get_profile" -> 3
      [] st = "create" -> 4
      [] st = "create_booking_event" -> 5

\* C10: a book_pick handler makes its calls in the order sheet check, calendar
\* check, profile lookup, row write, calendar insert; it makes no profile
\* lookup and no write once the sheet or the calendar held a conflict; a
\* calendar event is inserted only after the row with its property and
\* datetime was written.
C10_StepOrder ==
    /\ \A h \in BookPicks :
         /\ \A k, m \in DOMAIN obs[h].steps :
              k < m => StepRank(obs[h].steps[k]) < StepRank(obs[h].steps[m])
         /\ (obs[h].conflict \/ obs[h].calConflict)
              => StepSet(h) \cap {"get_profile", "create", "create_booking_event"} = {}
         /\ "create_booking_event" \in StepSet(h)
              => ( /\ obs[h].wrote \in DOMAIN store
                   /\ store[obs[h].wrote].property_id = loc[h].pid
                   /\ store[obs[h].wrote].datetime = loc[h].dt )
    /\ \A e \in calendar :
         \E i \in DOMAIN store :
            store[i].property_id = e.pid /\ store[i].datetime = e.dt

\* A handling that made every call of the sequence.
C10_Witness ==
    \E h \in BookPicks :
        /\ pc[h] = "done"
        /\ obs[h].steps = << "get_by_id", "exists", "find_event", "get_profile",
                             "create", "create_booking_event" >>
        /\ obs[h].fails = {}
        /\ calendar # {}

\* C11: every row is appended with status requested; a row that is already
\* in the sheet keeps its place and its identity, its status changes only to
\* cancelled, a cancelled row stays cancelled, and the number of rows never
\* decreases.
C11_StatusLifecycle ==
    [][ /\ Len(store') >= Len(store)
        /\ \A i \in 1..Len(store) :
              /\ store'[i].booking_id = store[i].booking_id
              /\ store'[i].status # store[i].status => store'[i].status = "cancelled"
              /\ store[i].status = "cancelled" => store'[i].status = "cancelled"
        /\ \A i \in (Len(store) + 1)..Len(store') : store'[i].status = "requested"
      ]_vars

\* A sheet on which a cancellation has been followed by a new booking and by
\* a second cancellation request for the cancelled row.
C11_Witness ==
    /\ Len(store) = 2
    /\ store[1].status = "cancelled"
    /\ store[2].status = "requested"
    /\ \E h \in Cancels : loc[h].bid = store[1].booking_id /\ obs[h].wasCancelled

\* ------------------------------------------- the booking store, call by call
\* The repository's methods applied one at a time, as the handlers and the
\* reminder sweep apply them, on a clock fine enough to land on either side
\* of the TTL.  The sheet is also edited from outside the process: that is
\* the only way a row becomes confirmed.  call records the method applied
\* last: the clock at the call, the rows _read_all handed to the method,
\* whether the worksheet was fetched for them, and the method's result.
TickSteps == {7, 8}

ReadOps == {"exists", "find_by_id", "list_for_user", "read_all"}

InitRepo == InitCommon /\ serial = TRUE /\ call = NoCall

RepoIdle == UNCHANGED << calendar, pc, loc, obs, rowCheck, serial >>

ReadCall(op, arg, ra, result) ==
    [op |-> op, arg |-> arg, at |-> now, rows |-> ra.rows,
     fetched |-> ra.w # World, result |-> result]

RepoExists ==
    /\ \E pid \in {"p1"}, dt \in Dts :
         LET ra == read_all(World, now)
             ex == exists(World, now, pid, dt)
         IN  /\ SetWorld(ex.w)
             /\ call' = ReadCall("exists", << pid, dt >>, ra, << ex.found >>)
    /\ UNCHANGED now
    /\ RepoIdle

RepoFindById ==
    /\ \E bid \in 1..MaxRows :
         LET ra == read_all(World, now)
             f == find_by_id(World, now, bid)
         IN  /\ SetWorld(f.w)
             /\ call' = ReadCall("find_by_id", << bid >>, ra, f.row)
    /\ UNCHANGED now
    /\ RepoIdle

RepoListForUser ==
    /\ \E user \in {"u1"} :
         LET ra == read_all(World, now)
             l == list_for_user(World, now, user)
         IN  /\ SetWorld(l.w)
             /\ call' = ReadCall("list_for_user", << user >>, ra, l.rows)
    /\ UNCHANGED now
    /\ RepoIdle

\* send_reminders reads the rows through _read_all itself.
RepoReadAll ==
    /\ LET ra == read_all(World, now)
       IN  /\ SetWorld(ra.w)
           /\ call' = ReadCall("read_all", << >>, ra, ra.rows)
    /\ UNCHANGED now
    /\ RepoIdle

RepoCreate ==
    /\ Len(store) < MaxRows
    /\ \E user \in {"u1"}, dt \in Dts :
         LET w2 == create(World, user, "", "p1", dt)
         IN  /\ SetWorld(w2)
             /\ call' = [op |-> "create", arg |-> << user, dt >>, at |-> now,
                         wrote |-> TRUE]
    /\ UNCHANGED now
    /\ RepoIdle

RepoCancel ==
    /\ \E bid \in 1..MaxRows :
         LET c == cancel(World, bid)
         IN  /\ SetWorld(c.w)
             /\ call' = [op |-> "cancel", arg |-> << bid >>, at |-> now,
                         wrote |-> c.ok]
    /\ UNCHANGED now
    /\ RepoIdle

\* An agent confirms a requested booking by editing the sheet.
SheetEdit ==
    /\ \E i \in DOMAIN store :
         /\ store[i].status = "requested"
         /\ store' = [store EXCEPT ![i].status = "confirmed"]
    /\ UNCHANGED << cache, cache_ts, now, call >>
    /\ RepoIdle

RepoTick ==
    /\ \E d \in TickSteps :
         /\ now + d <= RepoMaxTime
         /\ now' = now + d
    /\ UNCHANGED << store, cache, cache_ts, call >>
    /\ RepoIdle

NextRepo ==
    \/ RepoExists
    \/ RepoFindById
    \/ RepoListForUser
    \/ RepoReadAll
    \/ RepoCreate
    \/ RepoCancel
    \/ SheetEdit
    \/ RepoTick

SpecRepo == InitRepo /\ [][NextRepo]_vars

\* C12: a create, and a cancel that found its row, leave the cache empty;
\* a read (exists, find_by_id, list_for_user, the reminder read) made on an
\* empty cache or 15 s or more after the cache was filled fetches the sheet
\* and works on its current rows; a read made on a cache filled less than
\* 15 s earlier fetches nothing, works on the snapshot and leaves the cache
\* as it is.
C12_CacheFreshness ==
    [][ call' # call =>
          /\ (call'.op \in {"create", "cancel"} /\ call'.wrote) => cache' = << >>
          /\ call'.op \in ReadOps =>
                IF cache # << >> /\ now - cache_ts < 15
                THEN /\ ~call'.fetched
                     /\ call'.rows = cache[1]
                     /\ UNCHANGED << cache, cache_ts >>
                ELSE /\ call'.fetched
                     /\ call'.rows = store
                     /\ cache' = << store >>
                     /\ cache_ts' = now
      ]_vars

\* A read at exactly 15 s after the fill, on a sheet that has been edited
\* since, has fetched the edited rows.
C12_Witness ==
    /\ call.op \in ReadOps
    /\ call.fetched
    /\ call.at = 15
    /\ cache_ts = 15
    /\ \E i \in DOMAIN store : store[i].status = "confirmed" /\ store[i].booking_id = 2

\* A read 14 s after the fill has been served the snapshot although the
\* sheet has been edited since.
C12_WitnessStale ==
    /\ call.op \in ReadOps
    /\ ~call.fetched
    /\ call.at - cache_ts = 14
    /\ call.rows # store

\* ------------------------------------------------- cells, text and numbers
\* A cell of a sheet row or a value of a filter mapping is an int, a str (a
\* sequence of characters), None, or absent (the mapping has no such key).
I(n) == [t |-> "int", v |-> n]
S(chars) == [t |-> "str", v |-> chars]
PyNone == [t |-> "none", v |-> 0]
Absent == [t |-> "absent", v |-> 0]

Digits == << "0", "1", "2", "3", "4", "5", "6", "7", "8", "9" >>

DigitOf(c) == (CHOOSE k \in 1..10 : Digits[k] = c) - 1

IsDigit(c) == \E k \in 1..10 : Digits[k] = c

RECURSIVE Dec(_)
\* str(n) of an int
Dec(n) ==
    IF n < 0 THEN << "-" >> \o Dec(0 - n)
    ELSE IF n < 10 THEN << Digits[n + 1] >>
    ELSE Dec(n \div 10) \o << Digits[(n % 10) + 1] >>

RECURSIVE DigitsValue(_)
DigitsValue(chars) ==
    IF chars = << >> THEN 0
    ELSE 10 * DigitsValue(SubSeq(chars, 1, Len(chars) - 1)) + DigitOf(chars[Len(chars)])

RECURSIVE Strip(_)
\* str.strip()
Strip(chars) ==
    IF chars # << >> /\ chars[1] = " " THEN Strip(Tail(chars))
    ELSE IF chars # << >> /\ chars[Len(chars)] = " " THEN Strip(SubSeq(chars, 1, Len(chars) - 1))
    ELSE chars

\* int(x) of a str: [ok |-> FALSE] stands for ValueError
ParseInt(chars) ==
    LET c == Strip(chars)
        neg == c # << >> /\ c[1] = "-"
        d == IF neg THEN Tail(c) ELSE c
    IN  IF d # << >> /\ \A k \in DOMAIN d : IsDigit(d[k])
        THEN [ok |-> TRUE, v |-> IF neg THEN 0 - DigitsValue(d) ELSE DigitsValue(d)]
        ELSE [ok |-> FALSE, v |-> 0]

\* int(x) of any value
PyInt(c) ==
    CASE c.t = "int" -> [ok |-> TRUE, v |-> c.v]
      [] c.t = "str" -> ParseInt(c.v)
      [] OTHER -> [ok |-> FALSE, v |-> 0]

\* str(x)
Str(c) ==
    CASE c.t = "int" -> Dec(c.v)
      [] c.t = "str" -> c.v
      [] OTHER -> << "N", "o", "n", "e" >>

\* bool(x)
Truthy(c) ==
    CASE c.t = "int" -> c.v # 0
      [] c.t = "str" -> c.v # << >>
      [] OTHER -> FALSE

\* mapping.get(key, default) and mapping.get(key)
Get(r, key, default) == IF r[key].t = "absent" THEN default ELSE r[key]

GetOrNone(r, key) == Get(r, key, PyNone)

\* x or y
PyOr(x, y) == IF Truthy(x) THEN x ELSE y

UpperLetters == 
    << "A", "B", "C", "D", "E", "F", "G", "H", "I", "J", "K", "L", "M" >>
    \o << "N", "O", "P", "Q", "R", "S", "T", "U", "V", "W", "X", "Y", "Z" >>

LowerLetters == 
    << "a", "b", "c", "d", "e", "f", "g", "h", "i", "j", "k", "l", "m" >>
    \o << "n", "o", "p", "q", "r", "s", "t", "u", "v", "w", "x", "y", "z" >>

LowerChar(c) ==
    IF \E k \in DOMAIN UpperLetters : UpperLetters[k] = c
    THEN LowerLetters[CHOOSE k \in DOMAIN UpperLetters : UpperLetters[k] = c]
    ELSE c

\* str.lower()
Lower(chars) == [k \in DOMAIN chars |-> LowerChar(chars[k])]

\* needle in hay
Contains(needle, hay) ==
    \E k \in 0..(Len(hay) - Len(needle)) : SubSeq(hay, k + 1, k + Len(needle)) = needle

\* str.replace(",", "")
DropCommas(chars) == SelectSeq(chars, LAMBDA c : c # ",")

TxActive == << "a", "c", "t", "i", "v", "e" >>
TxCondo == << "c", "o", "n", "d", "o" >>
TxApartment == << "a", "p", "a", "r", "t", "m", "e", "n", "t" >>
TxLand == << "l", "a", "n", "d" >>
TxRetail == << "r", "e", "t", "a", "i", "l" >>
TxShop == << "s", "h", "o", "p" >>
TxShopHouse == << "s", "h", "o", "p", " ", "h", "o", "u", "s", "e" >>
TxShophouse == << "s", "h", "o", "p", "h", "o", "u", "s", "e" >>
TxCommercial == << "c", "o", "m", "m", "e", "r", "c", "i", "a", "l" >>
TxThaiCondo == << "th:condo" >>
TxThaiLand == << "th:land" >>

\* type_map, in the order the dictionary is walked
type_map ==
    << [k |-> TxRetail, vals |-> << TxRetail, TxShop, TxShopHouse, TxShophouse, TxCommercial >>],
       [k |-> TxCondo, vals |-> << TxCondo, TxApartment, TxThaiCondo >>],
       [k |-> TxLand, vals |-> << TxLand, TxThaiLand >>] >>

SeqRange(q) == {q[k] : k \in DOMAIN q}

type_targets(ptype) ==
    LET hits == {k \in DOMAIN type_map :
                   ptype = type_map[k].k \/ ptype \in SeqRange(type_map[k].vals)}
    IN  IF ptype = << >> THEN << >>
        ELSE IF hits # {} THEN << type_map[Min(hits)].k >> \o type_map[Min(hits)].vals
        ELSE << ptype >>

\* ----------------------------------------------- PropertiesRepository.search
IsActive(r) == Lower(Str(Get(r, "status", S(TxActive)))) = TxActive

area_of(filters) ==
    Lower(Strip(PyOr(PyOr(GetOrNone(filters, "neighborhood"), GetOrNone(filters, "area")),
                     S(<< >>)).v))

ptype_of(filters) == Lower(PyOr(GetOrNone(filters, "property_type"), S(<< >>)).v)

\* the text the area term is looked up in
hay(r) ==
    Lower(Str(Get(r, "neighborhood", S(<< >>))) \o << " " >>
          \o Str(Get(r, "address", S(<< >>))) \o << " " >>
          \o Str(Get(r, "title", S(<< >>))))

price_of(r) ==
    LET p == ParseInt(DropCommas(Str(Get(r, "price", I(0)))))
    IN  IF p.ok THEN p.v ELSE 0

\* lines 93-99: the bedrooms and the bathrooms test
count_ok(r, filters, key) ==
    LET want == GetOrNone(filters, key)
    IN  IF want.t # "none" /\ Strip(Str(PyOr(GetOrNone(r, key), S(<< >>)))) # << >>
        THEN Str(GetOrNone(r, key)) = Str(want)
        ELSE TRUE

ok(r, filters) ==
    LET price_min == GetOrNone(filters, "price_min")
        price_max == GetOrNone(filters, "price_max")
        area == area_of(filters)
        targets == type_targets(ptype_of(filters))
        hay2 == Lower(Str(Get(r, "type", S(<< >>))))
    IN  /\ ~(price_min.t # "none" /\ price_of(r) < PyInt(price_min).v)
        /\ ~(price_max.t # "none" /\ price_of(r) > PyInt(price_max).v)
        /\ count_ok(r, filters, "bedrooms")
        /\ count_ok(r, filters, "bathrooms")
        /\ area # << >> => Contains(area, hay(r))
        /\ targets # << >> => \E k \in DOMAIN targets : Contains(targets[k], hay2)

\* Variant of search whose area-only retry looks at every row of the sheet.
search_RetryOverAllRows(sheet, filters) ==
    LET rows == SelectSeq(sheet, IsActive)
        results == SelectSeq(rows, LAMBDA r : ok(r, filters))
        area == area_of(filters)
    IN  IF results = << >> /\ area # << >>
        THEN SelectSeq(sheet, LAMBDA r : Contains(area, hay(r)))
        ELSE results

\* Variant of search without the area-only retry.
search_NoRetry(sheet, filters) ==
    LET rows == SelectSeq(sheet, IsActive)
    IN  SelectSeq(rows, LAMBDA r : ok(r, filters))

search(sheet, filters) ==
    LET rows == SelectSeq(sheet, IsActive)
        results == SelectSeq(rows, LAMBDA r : ok(r, filters))
        area == area_of(filters)
    IN  IF results = << >> /\ area # << >>
        THEN SelectSeq(rows, LAMBDA r : Contains(area, hay(r)))
        ELSE results

\* ------------------------------------------------------ listings and filters
Listing(id, status, price, bedrooms, bathrooms, neighborhood, address, title, type) ==
    [id |-> id, status |-> status, price |-> price, bedrooms |-> bedrooms,
     bathrooms |-> bathrooms, neighborhood |-> neighborhood, address |-> address,
     title |-> title, type |-> type]

\* Rows as get_all_records returns them: numeric cells are ints, the others
\* are text, an empty cell is "".  A sheet without a status column gives
\* rows without the key.
Catalogue ==
    { Listing(I(1), S(TxActive), I(1000), I(2), I(1),
              S(<< "a" >>), S(<< "b" >>), S(<< >>), S(TxCondo)),
      Listing(I(2), S(<< "A", "c", "t", "i", "v", "e" >>), S(<< "1", ",", "5", "0", "0" >>), I(0), S(<< >>),
              S(<< "b" >>), S(<< >>), S(<< "A" >>), S(<< "L", "a", "n", "d" >>)),
      Listing(I(3), S(<< "i", "n" >> \o TxActive), I(1000), I(2), I(1),
              S(<< "a" >>), S(<< "b" >>), S(<< >>), S(TxCondo)),
      Listing(I(4), Absent, S(<< "n", "/", "a" >>), S(<< >>), I(2),
              S(<< "a", " ", "b" >>), S(<< >>), S(<< >>), S(TxApartment)),
      Listing(I(5), S(<< >>), I(1000), I(2), I(1),
              S(<< "a" >>), S(<< >>), S(<< >>), S(TxCondo)),
      Listing(I(6), S(TxActive), I(2000), I(3), I(2),
              S(<< "z" >>), S(<< >>), S(<< >>), S(TxShophouse)) }

RECURSIVE SeqsUpTo(_, _)
SeqsUpTo(Set, n) ==
    IF n = 0 THEN {<< >>}
    ELSE LET shorter == SeqsUpTo(Set, n - 1)
         IN  shorter \cup {Append(q, x) : q \in {y \in shorter : Len(y) = n - 1}, x \in Set}

ShortSheets == SeqsUpTo(Catalogue, MaxSheet)

Filters(price_min, price_max, bedrooms, bathrooms, neighborhood, area, property_type, cursor) ==
    [price_min |-> price_min, price_max |-> price_max, bedrooms |-> bedrooms,
     bathrooms |-> bathrooms, neighborhood |-> neighborhood, area |-> area,
     property_type |-> property_type, cursor |-> cursor]

NoFilters == Filters(Absent, Absent, Absent, Absent, Absent, Absent, Absent, Absent)

\* Filter mappings as the intent resolver produces them: counts and prices
\* are ints, area and type are text, a key may be missing or null.
FilterSets ==
    { Filters(Absent, pmax, bed, bath, nb, area, ptype, Absent) :
        pmax \in {Absent, I(1200)},
        bed \in {Absent, I(0), I(2)},
        bath \in {PyNone, I(1)},
        nb \in {Absent, S(<< "a" >>)},
        area \in {Absent, S(<< " ", "A", " " >>), S(<< "a", " ", "b" >>), S(<< "b" >>), S(<< " " >>)},
        ptype \in {Absent, S(TxApartment)} }

InitSearch ==
    /\ InitCommon
    /\ serial = TRUE
    /\ store = << >>
    /\ \E sheet \in ShortSheets, filters \in FilterSets :
         call = [op |-> "input", sheet |-> sheet, filters |-> filters, results |-> << >>]

SearchCall ==
    /\ call.op = "input"
    /\ call' = [call EXCEPT !.op = "search", !.results = search(call.sheet, call.filters)]
    /\ UNCHANGED << store, cache, cache_ts, now >>
    /\ RepoIdle

NextSearch == SearchCall

SpecSearch == InitSearch /\ [][NextSearch]_vars

\* C15: whatever the filters, every listing search returns is active (its
\* status cell reads active in some letter case, or the row has no status),
\* also when the area-only retry produced the result, and the result is the
\* sheet restricted to the returned listings, in sheet order.
ActiveSpellings ==
    { S(TxActive), S(<< "A", "c", "t", "i", "v", "e" >>), Absent }

C15_OnlyActiveInSheetOrder ==
    call.op = "search" =>
      /\ \A k \in DOMAIN call.results : call.results[k].status \in ActiveSpellings
      /\ call.results = SelectSeq(call.sheet, LAMBDA r : r \in SeqRange(call.results))

\* The retry has run on a sheet that holds an inactive listing in the area
\* next to an active one.
C15_Witness ==
    /\ call.op = "search"
    /\ call.results # << >>
    /\ area_of(call.filters) # << >>
    /\ search_NoRetry(call.sheet, call.filters) = << >>
    /\ \E k \in DOMAIN call.sheet :
         /\ call.sheet[k].status \notin ActiveSpellings
         /\ Contains(area_of(call.filters), hay(call.sheet[k]))

ActiveRows(sheet) == SelectSeq(sheet, LAMBDA r : r.status \in ActiveSpellings)

Blank(c) == c.t \in {"none", "absent"} \/ (c.t = "str" /\ Strip(c.v) = << >>)

CountRespected(r, filters, key) ==
    GetOrNone(filters, key).t # "none" =>
      \/ Blank(r[key])
      \/ Str(r[key]) = Str(GetOrNone(filters, key))

\* C17: when some listing passes the combined filter, every returned listing
\* has a blank bedrooms cell or the bedrooms count asked for, and likewise
\* for bathrooms; a stored 0 is a count, not a blank.
C17_CountsMatchExactly ==
    (call.op = "search" /\ search_NoRetry(call.sheet, call.filters) # << >>) =>
      \A k \in DOMAIN call.results :
        /\ CountRespected(call.results[k], call.filters, "bedrooms")
        /\ CountRespected(call.results[k], call.filters, "bathrooms")

\* ------------------------------------------------------ browse and its pages
\* A long sheet: row i has id i; every tenth row is inactive, every third is
\* land and the others are condos.
LongRow(i) ==
    Listing(I(i),
            IF i % 10 = 0 THEN S(<< "i", "n" >> \o TxActive) ELSE S(TxActive),
            I(1000), I(1), I(1), S(<< "a" >>), S(<< >>), S(<< >>),
            IF i % 3 = 0 THEN S(TxLand) ELSE S(TxCondo))

LongSheets == {[i \in 1..n |-> LongRow(i)] : n \in 0..MaxListings}

\* What the intent resolver hands to the browse branch: a type filter or
\* none, and a cursor that may be missing, negative, past the end or not a
\* number.
BrowseFilters ==
    { Filters(Absent, Absent, Absent, Absent, Absent, Absent, ptype, cursor) :
        ptype \in {Absent, S(TxCondo)},
        cursor \in {Absent, S(<< "x" >>)} \cup {I(c) : c \in (0 - 1)..MaxListings} }

\* The data of a postback button, "key=value&key=value", as its parts.
BrowseData(next_cursor) ==
    << [key |-> "action", val |-> << "b", "r", "o", "w", "s", "e" >>],
       [key |-> "cursor", val |-> Dec(next_cursor)] >>

extract_query_param(data, key) ==
    LET hits == {k \in DOMAIN data : data[k].key = key}
    IN  IF hits = {} THEN PyNone ELSE S(data[Min(hits)].val)

\* max(0, int(x)), 0 when int raises
cursor_of(x) ==
    LET n == PyInt(x)
    IN  IF n.ok /\ n.v > 0 THEN n.v ELSE 0

\* Variant of browse_page that offers a continuation up to the last item.
browse_page_MoreAtEnd(props, cursor) ==
    [page |-> SubSeq(props, cursor + 1, Min({cursor + PageSize, Len(props)})),
     more |-> IF cursor + PageSize <= Len(props)
              THEN << BrowseData(cursor + PageSize) >> ELSE << >>]

\* props[cursor:cursor + 9] and the "More results" button
browse_page(props, cursor) ==
    [page |-> SubSeq(props, cursor + 1, Min({cursor + PageSize, Len(props)})),
     more |-> IF cursor + PageSize < Len(props)
              THEN << BrowseData(cursor + PageSize) >> ELSE << >>]

InitBrowse ==
    /\ InitCommon
    /\ serial = TRUE
    /\ store = << >>
    /\ \E sheet \in LongSheets, filters \in BrowseFilters :
         call = [op |-> "input", sheet |-> sheet, filters |-> filters,
                 props |-> << >>, cursor |-> 0, page |-> << >>, more |-> << >>,
                 reply |-> "", start |-> 0, visited |-> << >>, same |-> TRUE]

\* _handle_text, intent browse or search (main.py 148-178)
TextBrowse ==
    /\ call.op = "input"
    /\ LET cursor == IF call.filters.cursor.t # "absent"
                     THEN cursor_of(call.filters.cursor) ELSE 0
           props == search(call.sheet, call.filters)
           b == browse_page(props, cursor)
       IN  call' = IF props = << >>
                   THEN [call EXCEPT !.op = "text_browse", !.cursor = cursor,
                                     !.start = cursor, !.reply = MsgNoProperties]
                   ELSE [call EXCEPT !.op = "text_browse", !.props = props,
                                     !.cursor = cursor, !.start = cursor,
                                     !.page = b.page, !.more = b.more,
                                     !.visited = b.page, !.reply = "carousel"]
    /\ UNCHANGED << store, cache, cache_ts, now >>
    /\ RepoIdle

\* _handle_postback, the "More results" button of the page shown last
\* (main.py 448-476)
PostbackBrowse ==
    /\ call.op \in {"text_browse", "postback_browse"}
    /\ call.more # << >>
    /\ LET data == call.more[1]
           cursor == cursor_of(PyOr(extract_query_param(data, "cursor"), S(<< "0" >>)))
           props == search(call.sheet, NoFilters)
           b == browse_page(props, cursor)
       IN  call' = IF b.page = << >>
                   THEN [call EXCEPT !.op = "postback_browse", !.props = props,
                                     !.cursor = cursor, !.page = << >>, !.more = << >>,
                                     !.same = call.same /\ props = call.props,
                                     !.reply = MsgNoMoreResults]
                   ELSE [call EXCEPT !.op = "postback_browse", !.props = props,
                                     !.cursor = cursor, !.page = b.page, !.more = b.more,
                                     !.visited = call.visited \o b.page,
                                     !.same = call.same /\ props = call.props,
                                     !.reply = "carousel"]
    /\ UNCHANGED << store, cache, cache_ts, now >>
    /\ RepoIdle

NextBrowse ==
    \/ TextBrowse
    \/ PostbackBrowse

SpecBrowse == InitBrowse /\ [][NextBrowse]_vars

Paged == call.op \in {"text_browse", "postback_browse"}

C14_ContinuationKeepsFilter ==
    call.op = "postback_browse" =>
      \A k \in DOMAIN call.page :
        call.page[k] \in SeqRange(search(call.sheet, call.filters))

\* ---------------------------------------------------------- reminder sweep
\* Clock and appointments in minutes.  A datetime cell is text that
\* fromisoformat refuses ("bad"), text with a UTC offset or a Z ("aware"), or
\* text without an offset ("naive"), which is what the transport's datetime
\* picker delivers and book_pick stores.  Subtracting the aware now from a
\* naive datetime raises TypeError outside the inner try block: the outer
\* handler logs it and the sweep is over.
Appointment == 2000

DatetimeCells ==
    { [kind |-> "aware", at |-> Appointment],
      [kind |-> "naive", at |-> Appointment],
      [kind |-> "bad", at |-> 0],
      [kind |-> "aware", at |-> Appointment + 5000] }

SweepRows ==
    { [user_id |-> "u1", status |-> st, datetime |-> [kind |-> "aware", at |-> Appointment]] :
        st \in {"requested", "confirmed", "cancelled"} }
    \cup { [user_id |-> "u1", status |-> "requested", datetime |-> d] : d \in DatetimeCells }
    \cup { [user_id |-> "", status |-> "requested",
            datetime |-> [kind |-> "aware", at |-> Appointment]] }

SweepSheets ==
    { [i \in DOMAIN q |->
         [booking_id |-> i, user_id |-> q[i].user_id, user_display_name |-> "",
          property_id |-> "p1", datetime |-> q[i].datetime, status |-> q[i].status]] :
      q \in SeqsUpTo(SweepRows, MaxRows) }

SweepStarts == {Appointment - Mark24h - Tolerance - 1, Appointment - Mark2h - Tolerance - 1}

InWindow(delta, mark) == mark - Tolerance < delta /\ delta < mark + Tolerance

\* _push_reminder: the message goes out only to a non-empty user id
push_reminder(b, window) ==
    IF b.user_id # "" /\ b.user_id # NoneVal
    THEN << [bid |-> b.booking_id, to |-> b.user_id, window |-> window] >>
    ELSE << >>

\* the body of the loop for one booking whose datetime could be subtracted
reminders_for(b, t, enabled) ==
    LET delta == b.datetime.at - t
    IN  (IF InWindow(delta, Mark2h) /\ enabled THEN push_reminder(b, "2h") ELSE << >>)
        \o (IF InWindow(delta, Mark24h) /\ enabled THEN push_reminder(b, "24h") ELSE << >>)

RECURSIVE sweep_from(_, _, _, _)
\* the loop of send_reminders from row k on: the pushes made, and whether
\* the loop was left by an exception
sweep_from(rows, k, t, enabled) ==
    IF k > Len(rows) THEN [pushes |-> << >>, failed |-> FALSE]
    ELSE LET b == rows[k]
             rest == sweep_from(rows, k + 1, t, enabled)
         IN  IF b.status \notin NonCancelled \/ b.datetime.kind = "bad"
             THEN rest
             ELSE IF b.datetime.kind = "naive"
             THEN [pushes |-> << >>, failed |-> TRUE]
             ELSE [pushes |-> reminders_for(b, t, enabled) \o rest.pushes,
                   failed |-> rest.failed]

InitSweep ==
    /\ store \in SweepSheets
    /\ cache = << >>
    /\ cache_ts = 0
    /\ now \in SweepStarts
    /\ calendar = {}
    /\ pc = [h \in Handlers |-> "idle"]
    /\ loc = [h \in Handlers |-> IdleLoc]
    /\ obs = [h \in Handlers |-> IdleObs]
    /\ rowCheck = [i \in DOMAIN store |-> 0]
    /\ serial = TRUE
    /\ \E enabled \in BOOLEAN :
         call = [op |-> "none", enabled |-> enabled, start |-> now, at |-> now,
                 pushes |-> << >>, failed |-> FALSE, sweeps |-> << >>, log |-> << >>]

\* send_reminders: one whole sweep over the rows _read_all returns
send_reminders(op) ==
    /\ Len(call.sweeps) < MaxSweeps
    /\ LET ra == read_all(World, now * 60)
           sw == sweep_from(ra.rows, 1, now, call.enabled)
       IN  /\ SetWorld(ra.w)
           /\ call' = [call EXCEPT !.op = op, !.at = now, !.pushes = sw.pushes,
                                   !.failed = sw.failed,
                                   !.sweeps = Append(@, now),
                                   !.log = @ \o sw.pushes]
    /\ UNCHANGED now
    /\ RepoIdle

\* the scheduler's job, every 10 minutes
SchedulerSweep ==
    /\ (now - call.start) % SweepInterval = 0
    /\ send_reminders("job")

\* GET /cron/reminders, at any time
cron_reminders == send_reminders("cron")

SweepTick ==
    /\ now < call.start + SweepHorizon
    /\ now' = now + 1
    /\ UNCHANGED << store, cache, cache_ts, call >>
    /\ RepoIdle

NextSweep ==
    \/ SchedulerSweep
    \/ cron_reminders
    \/ SweepTick

SpecSweep == InitSweep /\ [][NextSweep]_vars

Count(q, P(_)) == Cardinality({k \in DOMAIN q : P(q[k])})

\* the booking qualifies for the reminder of this mark at clock t
Due(b, t, mark) ==
    /\ b.status \in NonCancelled
    /\ b.user_id # ""
    /\ b.datetime.kind = "aware"
    /\ mark - 5 < b.datetime.at - t
    /\ b.datetime.at - t < mark + 5

\* the booking must not be reminded for this mark at clock t
NotDue(b, t, mark) ==
    \/ b.status = "cancelled"
    \/ b.datetime.kind = "bad"
    \/ /\ b.datetime.kind = "aware"
       /\ ~(mark - 5 < b.datetime.at - t /\ b.datetime.at - t < mark + 5)

\* C18: in a sweep with reminders enabled, every booking that is requested or
\* confirmed, has a user id and is strictly within 5 minutes of the 2-hour
\* (24-hour) mark is pushed exactly once for that window; a cancelled
\* booking, a booking with an unparseable datetime and a booking outside the
\* window is not pushed for it.
C18_OnePushPerDueBooking ==
    (call.op \in {"job", "cron"} /\ call.enabled) =>
      \A i \in DOMAIN store :
        /\ Due(store[i], call.at, 120) =>
             Count(call.pushes, LAMBDA p : p.bid = i /\ p.window = "2h") = 1
        /\ Due(store[i], call.at, 1440) =>
             Count(call.pushes, LAMBDA p : p.bid = i /\ p.window = "24h") = 1
        /\ NotDue(store[i], call.at, 120) =>
             Count(call.pushes, LAMBDA p : p.bid = i /\ p.window = "2h") = 0
        /\ NotDue(store[i], call.at, 1440) =>
             Count(call.pushes, LAMBDA p : p.bid = i /\ p.window = "24h") = 0

\* C19: a booking that was due for the same window in two sweeps has been
\* pushed that reminder twice.
C19_DuplicateReminders ==
    call.enabled =>
      \A i \in DOMAIN store :
        /\ Count(call.sweeps, LAMBDA t : Due(store[i], t, 120)) >= 2 =>
             Count(call.log, LAMBDA p : p.bid = i /\ p.window = "2h") >= 2
        /\ Count(call.sweeps, LAMBDA t : Due(store[i], t, 1440)) >= 2 =>
             Count(call.log, LAMBDA p : p.bid = i /\ p.window = "24h") >= 2

\* ---------------------------------------------------- GeminiNLU._regex_intent
DigitSet == SeqRange(Digits)
SpaceSet == {" "}
WordChars == DigitSet \cup SeqRange(LowerLetters) \cup SeqRange(UpperLetters) \cup {"_"}

Max(Set) == CHOOSE x \in Set : \A y \in Set : y <= x

\* length of the longest prefix of q made of characters of Set
PrefixLen(q, Set) == Max({n \in 0..Len(q) : \A k \in 1..n : q[k] \in Set})

\* length of the longest prefix of q made of characters outside Set
PrefixLenNot(q, Set) == Max({n \in 0..Len(q) : \A k \in 1..n : q[k] \notin Set})

StartsWith(prefix, q) == Len(prefix) <= Len(q) /\ SubSeq(q, 1, Len(prefix)) = prefix

Drop(q, n) == SubSeq(q, n + 1, Len(q))

\* \b after the first n characters of q, the n-th being a word character
BoundaryAfter(q, n) == Len(q) = n \/ q[n + 1] \notin WordChars

RECURSIVE Squeeze(_)
\* ' '.join(q.split()) of a stripped text
Squeeze(q) ==
    IF Len(q) < 2 THEN q
    ELSE IF q[1] = " " /\ q[2] = " " THEN Squeeze(Tail(q))
    ELSE << q[1] >> \o Squeeze(Tail(q))

\* Variant of normalize that keeps the letter case.
normalize_KeepsCase(text) == Squeeze(Strip(text))

normalize(text) == Squeeze(Strip(Lower(text)))

TxBrowse == << "b", "r", "o", "w", "s", "e" >>
TxMyBookings == << "m", "y", " ", "b", "o", "o", "k", "i", "n", "g", "s" >>
TxDetail == << "d", "e", "t", "a", "i", "l" >>
TxBook == << "b", "o", "o", "k" >>
TxCancel == << "c", "a", "n", "c", "e", "l" >>
TxUnder == << "u", "n", "d", "e", "r" >>
TxOver == << "o", "v", "e", "r" >>
TxIn == << "i", "n" >>

BedWords ==
    { << "b", "r" >>, << "b", "e", "d" >>,
      << "b", "e", "d", "s" >>, << "b", "d" >>,
      << "b", "e", "d", "r", "o", "o", "m" >>,
      << "b", "e", "d", "r", "o", "o", "m", "s" >> }

\* re.match(word + r"\s+(\S+)", q): << >> when there is no match, else the
\* group in a one-element sequence
command_token(q, word) ==
    LET rest == Drop(q, Len(word))
        sp == PrefixLen(rest, SpaceSet)
        tok == Drop(rest, sp)
        n == PrefixLenNot(tok, SpaceSet)
    IN  IF StartsWith(word, q) /\ sp >= 1 /\ n >= 1 THEN << SubSeq(tok, 1, n) >> ELSE << >>

\* re.search(pattern, q): the match at the leftmost position that has one.
\* Each X_at(q, i) is the match of pattern X tried at position i: << >> or
\* the converted group in a one-element sequence.
FirstMatch(hits) == IF hits = {} THEN 0 ELSE Min(hits)

bedrooms_at(q, i) ==
    LET s == Drop(q, i - 1)
        d == PrefixLen(s, DigitSet)
        r == Drop(s, d + PrefixLen(Drop(s, d), SpaceSet))
    IN  IF d >= 1 /\ \E w \in BedWords : StartsWith(w, r) /\ BoundaryAfter(r, Len(w))
        THEN << DigitsValue(SubSeq(s, 1, d)) >> ELSE << >>

under_at(q, i) ==
    LET s == Drop(q, i - 1)
        r == Drop(s, Len(TxUnder))
        sp == PrefixLen(r, SpaceSet)
        g == Drop(r, sp)
        n == PrefixLen(g, DigitSet \cup {",", " "})
    IN  IF StartsWith(TxUnder, s) /\ sp >= 1 /\ PrefixLen(g, DigitSet) >= 1
        THEN << DigitsValue(SelectSeq(SubSeq(g, 1, n), LAMBDA c : c \in DigitSet)) >>
        ELSE << >>

under_k_at(q, i) ==
    LET s == Drop(q, i - 1)
        r == Drop(s, Len(TxUnder))
        sp == PrefixLen(r, SpaceSet)
        g == Drop(r, sp)
        d == PrefixLen(g, DigitSet)
        k == Drop(g, d + PrefixLen(Drop(g, d), SpaceSet))
    IN  IF StartsWith(TxUnder, s) /\ sp >= 1 /\ d >= 1
           /\ StartsWith(<< "k" >>, k) /\ BoundaryAfter(k, 1)
        THEN << DigitsValue(SubSeq(g, 1, d)) * 1000 >> ELSE << >>

over_at(q, i) ==
    LET s == Drop(q, i - 1)
        r == Drop(s, Len(TxOver))
        sp == PrefixLen(r, SpaceSet)
        g == Drop(r, sp)
        n == PrefixLen(g, DigitSet \cup {","})
    IN  IF StartsWith(TxOver, s) /\ sp >= 1 /\ PrefixLen(g, DigitSet) >= 1
        THEN << DigitsValue(DropCommas(SubSeq(g, 1, n))) >> ELSE << >>

in_at(q, i) ==
    LET s == Drop(q, i - 1)
        r == Drop(s, Len(TxIn))
        sp == PrefixLen(r, SpaceSet)
        g == Drop(r, sp)
    IN  IF StartsWith(TxIn, s) /\ sp >= 1 /\ g # << >>
           /\ PrefixLen(g, SeqRange(LowerLetters) \cup {"-", " "}) = Len(g)
        THEN << Strip(g) >> ELSE << >>

IntentFilters(bedrooms, price_max, price_min, neighborhood, property_type, property_id, booking_id) ==
    [bedrooms |-> bedrooms, price_max |-> price_max, price_min |-> price_min,
     neighborhood |-> neighborhood, property_type |-> property_type,
     property_id |-> property_id, booking_id |-> booking_id]

EmptyFilters == IntentFilters(Absent, Absent, Absent, Absent, Absent, Absent, Absent)

\* A JSON value as the handler sees it: its type, whether Python takes it
\* for true, and for a dict its name and its filters.  fkind is the type of
\* the filters value.
Json(t, truthy, name, fkind, filters) ==
    [t |-> t, truthy |-> truthy, name |-> name, fkind |-> fkind, filters |-> filters]

Intent(name, filters) ==
    Json("dict", TRUE, S(name), IF filters = EmptyFilters THEN "empty_dict" ELSE "dict", filters)

regex_intent(text) ==
    LET q == normalize(text)
        detail == command_token(q, TxDetail)
        book == command_token(q, TxBook)
        cancel_ == command_token(q, TxCancel)
        b == FirstMatch({i \in DOMAIN q : bedrooms_at(q, i) # << >>})
        u == FirstMatch({i \in DOMAIN q : under_at(q, i) # << >>})
        uk == FirstMatch({i \in DOMAIN q : under_k_at(q, i) # << >>})
        o == FirstMatch({i \in DOMAIN q : over_at(q, i) # << >>})
        n == FirstMatch({i \in DOMAIN q : in_at(q, i) # << >>})
        filters ==
          IntentFilters(
            IF b # 0 THEN I(bedrooms_at(q, b)[1]) ELSE Absent,
            IF uk # 0 THEN I(under_k_at(q, uk)[1])
            ELSE IF u # 0 THEN I(under_at(q, u)[1]) ELSE Absent,
            IF o # 0 THEN I(over_at(q, o)[1]) ELSE Absent,
            IF n # 0 THEN S(in_at(q, n)[1]) ELSE Absent,
            IF Contains(TxLand, q) THEN S(TxLand)
            ELSE IF Contains(TxRetail, q) THEN S(TxRetail)
            ELSE IF Contains(TxCondo, q) THEN S(TxCondo) ELSE Absent,
            Absent, Absent)
    IN  IF StartsWith(TxBrowse, q) THEN Intent(TxBrowse, EmptyFilters)
        ELSE IF StartsWith(TxMyBookings, q) THEN Intent(<< "m", "y", "_", "b", "o", "o", "k", "i", "n", "g", "s" >>, EmptyFilters)
        ELSE IF detail # << >>
        THEN Intent(TxDetail, [EmptyFilters EXCEPT !.property_id = S(detail[1])])
        ELSE IF book # << >>
        THEN Intent(TxBook, [EmptyFilters EXCEPT !.property_id = S(book[1])])
        ELSE IF cancel_ # << >>
        THEN Intent(TxCancel, [EmptyFilters EXCEPT !.booking_id = S(cancel_[1])])
        ELSE IF filters # EmptyFilters THEN Intent(<< "s", "e", "a", "r", "c", "h" >>, filters)
        ELSE Intent(<< "f", "a", "l", "l", "b", "a", "c", "k" >>, EmptyFilters)

\* ------------------------------------------------- GeminiNLU.parse_intent
\* What the language-model call can come back with: a status other than 200,
\* an exception (timeout, connection error), a 200 whose text is not JSON or
\* whose body has no candidate text, or a 200 whose text is JSON.
JNull == Json("null", FALSE, PyNone, "absent", EmptyFilters)

NameCells ==
    { Absent, PyNone, S(<< >>), S(<< "g", "r", "e", "e", "t" >>), S(TxBrowse), S(<< "s", "e", "a", "r", "c", "h" >>), S(TxDetail),
      S(TxBook), S(<< "m", "y", "_", "b", "o", "o", "k", "i", "n", "g", "s" >>), S(TxCancel), S(<< "f", "a", "l", "l", "b", "a", "c", "k" >>) }

SomeFilters == [EmptyFilters EXCEPT !.property_id = S(<< "p", "1" >>)]

JsonValues ==
    { JNull,
      Json("bool", FALSE, Absent, "absent", EmptyFilters),
      Json("bool", TRUE, Absent, "absent", EmptyFilters),
      Json("number", FALSE, Absent, "absent", EmptyFilters),
      Json("number", TRUE, Absent, "absent", EmptyFilters),
      Json("string", FALSE, Absent, "absent", EmptyFilters),
      Json("string", TRUE, Absent, "absent", EmptyFilters),
      Json("list", FALSE, Absent, "absent", EmptyFilters),
      Json("list", TRUE, Absent, "absent", EmptyFilters) }
    \cup { Json("dict", name.t # "absent" \/ fkind # "absent", name, fkind,
                IF fkind = "dict" THEN SomeFilters ELSE EmptyFilters) :
             name \in NameCells,
             fkind \in {"absent", "null", "empty_dict", "dict", "list", "string"} }
    \cup { Json("dict", TRUE, Absent, "absent", EmptyFilters) }

LMOutcomes ==
    { [kind |-> k, value |-> JNull] : k \in {"non200", "raises", "malformed"} }
    \cup { [kind |-> "json", value |-> j] : j \in JsonValues }

\* Ids as users type them and as the sheets hold them.
Tokens == { << "P", "1" >>, << "p", "1" >>, << "B", "7" >> }

CommandWords == {TxDetail, TxBook, TxCancel}

CommandTexts == {w \o << " " >> \o tok : w \in CommandWords, tok \in Tokens}

\* Amounts as users write them, with the number meant.
Amounts ==
    { [txt |-> << "7", "0", "0" >>, val |-> 700],
      [txt |-> << "5", ",", "0", "0", "0" >>, val |-> 5000],
      [txt |-> << "3", "0", ",", "0", "0", "0" >>, val |-> 30000],
      [txt |-> << "3", "0", "k" >>, val |-> 30000],
      [txt |-> << "1", "5", " ", "k" >>, val |-> 15000] }

Tails == { << >>, << " ", "2", " ", "b", "e", "d" >>, << " ", "i", "n", " ", "a", "s", "o", "k" >>, << " ", "c", "o", "n", "d", "o" >>, << " ", "o", "r", " ", "4", "0", ",", "0", "0", "0" >> }

Heads == { << >>, << "c", "o", "n", "d", "o", " " >> }

UnderTexts ==
    {h \o TxUnder \o << " " >> \o a.txt \o t : h \in Heads, a \in Amounts, t \in Tails}

SampleTexts ==
    { << "b", "r", "o", "w", "s", "e" >>,
      << "B", "r", "o", "w", "s", "e", " ", "c", "o", "n", "d", "o", "s", " ", "i", "n", " ", "A", "s", "o", "k" >>,
      << "m", "y", " ", "b", "o", "o", "k", "i", "n", "g", "s" >>,
      << "d", "e", "t", "a", "i", "l", " ", "P", "1" >>,
      << "b", "o", "o", "k", " ", "p", "1" >>,
      << "c", "a", "n", "c", "e", "l", " ", "B", "7" >>,
      << "c", "a", "n", "c", "e", "l" >>,
      << "2", " ", "b", "e", "d", " ", "c", "o", "n", "d", "o", " ", "u", "n", "d", "e", "r", " ", "2", "0", ",", "0", "0", "0", " ", "i", "n", " ", "t", "h", "o", "n", "g", " ", "l", "o" >>,
      << "u", "n", "d", "e", "r", " ", "1", "5", "k" >>,
      << "u", "n", "d", "e", "r", " ", "5", ",", "0", "0", "0", " ", "2", " ", "b", "e", "d" >>,
      << "o", "v", "e", "r", " ", "1", ",", "0", "0", "0", " ", "l", "a", "n", "d" >>,
      << "h", "e", "l", "l", "o" >>,
      << >>,
      << " ", " ", "d", "e", "t", "a", "i", "l", " ", " ", " ", "p", "1", " ", "x" >>,
      << "c", "a", "b", "i", "n", " ", "f", "e", "v", "e", "r" >>,
      << "r", "e", "t", "a", "i", "l", " ", "3", " ", "b", "e", "d", "r", "o", "o", "m", "s" >> }

Texts == SampleTexts \cup CommandTexts \cup UnderTexts

\* _parse_with_gemini: None unless the call gave 200 and json.loads accepted
\* the text; then whatever json.loads returned
parse_with_gemini(outcome) == IF outcome.kind = "json" THEN outcome.value ELSE JNull

parse_intent(text, outcome) ==
    LET intent == parse_with_gemini(outcome)
    IN  IF intent.truthy THEN intent ELSE regex_intent(text)

\* main.py 139-146: the intent the handler goes on with.  Only a dict has
\* .get; on anything else line 145 raises.
resolve_intent(text, outcome) ==
    LET intent == parse_intent(text, outcome)
        name == PyOr(GetOrNone(intent, "name"), S(<< "f", "a", "l", "l", "b", "a", "c", "k" >>))
        falsy == intent.fkind \in {"absent", "null", "empty_dict"}
    IN  IF intent.t # "dict"
        THEN [raised |-> TRUE, name |-> S(<< >>), fkind |-> "absent", filters |-> EmptyFilters,
              from_model |-> TRUE]
        ELSE [raised |-> FALSE, name |-> name,
              fkind |-> IF falsy THEN "empty_dict" ELSE intent.fkind,
              filters |-> intent.filters,
              from_model |-> parse_with_gemini(outcome).truthy]

NoIntent ==
    [raised |-> FALSE, name |-> S(<< >>), fkind |-> "absent", filters |-> EmptyFilters,
     from_model |-> FALSE]

InitIntent ==
    /\ InitCommon
    /\ serial = TRUE
    /\ store = << >>
    /\ \E text \in Texts, outcome \in LMOutcomes :
         call = [op |-> "input", text |-> text, outcome |-> outcome,
                 intent |-> NoIntent]

ResolveIntent ==
    /\ call.op = "input"
    /\ call' = [call EXCEPT !.op = "resolve",
                            !.intent = resolve_intent(call.text, call.outcome)]
    /\ UNCHANGED << store, cache, cache_ts, now >>
    /\ RepoIdle

NextIntent == ResolveIntent

SpecIntent == InitIntent /\ [][NextIntent]_vars

IntentNames ==
    { S(TxBrowse), S(<< "s", "e", "a", "r", "c", "h" >>), S(TxDetail), S(TxBook), S(<< "m", "y", "_", "b", "o", "o", "k", "i", "n", "g", "s" >>),
      S(TxCancel), S(<< "f", "a", "l", "l", "b", "a", "c", "k" >>) }

\* C20: whatever the text and whatever the language-model call came back
\* with, the handler gets, without an exception, an intent whose name is one
\* of browse, search, detail, book, my_bookings, cancel, fallback and whose
\* filters is a mapping.
C20_IntentAlwaysUsable ==
    call.op = "resolve" =>
      /\ ~call.intent.raised
      /\ call.intent.name \in IntentNames
      /\ call.intent.fkind \in {"dict", "empty_dict"}

\* the answer of the language-model call is one the rule-based matching
\* has to replace: not 200, not JSON, or a JSON object without name or
\* without filters
MustFallBack(outcome) ==
    \/ outcome.kind \in {"non200", "malformed"}
    \/ /\ outcome.kind = "json"
       /\ outcome.value.t = "dict"
       /\ outcome.value.name.t = "absent" \/ outcome.value.fkind = "absent"

\* C21: when the language-model response is not 200, is not JSON, or is a
\* JSON object that lacks name or filters, the intent the handler goes on
\* with is the result of the rule-based matching on the same text.
C21_FallbackToRules ==
    (call.op = "resolve" /\ MustFallBack(call.outcome)) =>
      /\ ~call.intent.raised
      /\ call.intent.name = regex_intent(call.text).name
      /\ call.intent.filters = regex_intent(call.text).filters

RuleBased == call.op = "resolve" /\ ~call.intent.from_model

\* C22: on the rule-based path a text "detail <token>" gives detail with
\* property_id the token as typed, "book <token>" gives book with that
\* property_id, and "cancel <token>" gives cancel with booking_id the token
\* as typed.
C22_CommandTokenAsTyped ==
    RuleBased =>
      \A tok \in Tokens :
        /\ call.text = TxDetail \o << " " >> \o tok =>
             /\ call.intent.name = S(TxDetail)
             /\ call.intent.filters.property_id = S(tok)
        /\ call.text = TxBook \o << " " >> \o tok =>
             /\ call.intent.name = S(TxBook)
             /\ call.intent.filters.property_id = S(tok)
        /\ call.text = TxCancel \o << " " >> \o tok =>
             /\ call.intent.name = S(TxCancel)
             /\ call.intent.filters.booking_id = S(tok)

\* C23: on the rule-based path a free text holding "under <amount>" gives
\* price_max the number the amount stands for (digits with optional
\* thousands commas, or digits and k for thousands), whatever precedes and
\* follows the amount.
C23_UnderAmount ==
    RuleBased =>
      \A h \in Heads, a \in Amounts, t \in Tails :
        call.text = h \o TxUnder \o << " " >> \o a.txt \o t =>
          call.intent.filters.price_max = I(a.val)

\* C24: on the rule-based path a text that begins with browse once trimmed,
\* lowercased and with its runs of spaces collapsed gives browse with no
\* filters, whatever follows; otherwise the first of my bookings, detail,
\* book, cancel that the text matches decides, and only a text that matches
\* none of them is searched for filters.
C24_CommandsBeforeFilters ==
    RuleBased =>
      LET q == Squeeze(Strip(Lower(call.text)))
          name == call.intent.name
      IN  IF StartsWith(TxBrowse, q)
          THEN name = S(TxBrowse) /\ call.intent.filters = EmptyFilters
          ELSE IF StartsWith(TxMyBookings, q)
          THEN name = S(<< "m", "y", "_", "b", "o", "o", "k", "i", "n", "g", "s" >>) /\ call.intent.filters = EmptyFilters
          ELSE IF command_token(q, TxDetail) # << >> THEN name = S(TxDetail)
          ELSE IF command_token(q, TxBook) # << >> THEN name = S(TxBook)
          ELSE IF command_token(q, TxCancel) # << >> THEN name = S(TxCancel)
          ELSE name \in {S(<< "s", "e", "a", "r", "c", "h" >>), S(<< "f", "a", "l", "l", "b", "a", "c", "k" >>)}

\* A text that begins with Browse and names a type and an area has been
\* resolved by the rules.
C24_Witness ==
    /\ RuleBased
    /\ call.text = << "B", "r", "o", "w", "s", "e", " ", "c", "o", "n", "d", "o", "s", " ", "i", "n", " ", "A", "s", "o", "k" >>
    /\ call.intent.name = S(TxBrowse)
    /\ call.intent.filters = EmptyFilters

(***************************************************************************)
(* The webhook endpoint (main.py 107-132).  A delivery carries a signature *)
(* header and a list of events; the process holds a parser only when both  *)
(* transport credentials were present at start (main.py 59-69).  The       *)
(* endpoint itself makes no reply and touches no store: both happen only   *)
(* inside the two handlers it awaits.                                      *)
(***************************************************************************)
MaxEvents == 2

EventKinds == { "text", "postback", "other" }

Signatures == { "missing", "invalid", "valid" }

Deliveries == UNION { [1..n -> EventKinds] : n \in 0..MaxEvents }

\* Variant of callback_status that lets an invalid signature through.
callback_status_AcceptsInvalid(configured, signature) ==
    IF ~configured THEN 500
    ELSE IF signature = "missing" THEN 400
    ELSE 200

\* The status the endpoint answers with (main.py 109-121): 500 without
\* credentials, 400 for a missing or invalid signature, 200 otherwise.
callback_status(configured, signature) ==
    IF ~configured THEN 500
    ELSE IF signature = "missing" THEN 400
    ELSE IF signature = "invalid" THEN 400
    ELSE 200

RECURSIVE dispatch(_)
\* The loop over the parsed events (main.py 123-130): the handler awaited for
\* each event, in order; other events are skipped.
dispatch(events) ==
    IF events = << >> THEN << >>
    ELSE LET rest == dispatch(Tail(events))
         IN  IF Head(events) = "text" THEN << "_handle_text" >> \o rest
             ELSE IF Head(events) = "postback" THEN << "_handle_postback" >> \o rest
             ELSE rest

InitCallback ==
    /\ InitCommon
    /\ serial = TRUE
    /\ \E configured \in BOOLEAN, signature \in Signatures, events \in Deliveries :
         call = [op |-> "delivery", configured |-> configured,
                 signature |-> signature, events |-> events,
                 status |-> 0, handled |-> << >>]

\* POST /callback (main.py 107-132)
callback ==
    /\ call.op = "delivery"
    /\ LET status == callback_status(call.configured, call.signature)
       IN  call' = [call EXCEPT !.op = "callback",
                                !.status = status,
                                !.handled = IF status = 200 THEN dispatch(call.events)
                                            ELSE << >>]
    /\ UNCHANGED << store, cache, cache_ts, now >>
    /\ RepoIdle

NextCallback == callback

SpecCallback == InitCallback /\ [][NextCallback]_vars

MsgSpecifyProperty == "Please specify a valid property to book."
MsgPropertyDetail == "Property detail"
MsgPickDate == "Pick a date/time for the property"

\* Variant of detail_reply that builds the card without testing the lookup.
detail_reply_CardOfNone(pid) ==
    LET prop == IF pid # NoneVal THEN get_by_id(pid) ELSE NoneVal
    IN  IF prop = NoneVal
        THEN [raised |-> TRUE, msg |-> ""]
        ELSE [raised |-> FALSE, msg |-> MsgPropertyDetail]

\* main.py 181-197 and 370-386: the text reply for a lookup that found
\* nothing, the property card otherwise.
detail_reply(pid) ==
    LET prop == IF pid # NoneVal THEN get_by_id(pid) ELSE NoneVal
    IN  IF prop = NoneVal
        THEN [raised |-> FALSE, msg |-> MsgPropertyNotFound]
        ELSE [raised |-> FALSE, msg |-> MsgPropertyDetail]

\* main.py 201-230 and 391-419: missing is the text of the entry point for a
\* lookup that found nothing; otherwise the date picker is offered.
book_reply(pid, missing) ==
    LET prop == IF pid # NoneVal THEN get_by_id(pid) ELSE NoneVal
    IN  IF prop = NoneVal
        THEN [raised |-> FALSE, msg |-> missing]
        ELSE [raised |-> FALSE, msg |-> MsgPickDate]

LookupBranch(h, kind, pid, r) ==
    /\ pc' = [pc EXCEPT ![h] = IF r.raised THEN "crashed" ELSE "done"]
    /\ loc' = [loc EXCEPT ![h] = [IdleLoc EXCEPT !.kind = kind, !.pid = pid, !.msg = r.msg]]
    /\ obs' = [obs EXCEPT ![h] = [IdleObs EXCEPT
                 !.reply = r.msg, !.replies = @ + 1,
                 !.steps = IF pid # NoneVal THEN << "get_by_id" >> ELSE << >>]]
    /\ UNCHANGED << store, cache, cache_ts, now, calendar, rowCheck, serial, call >>

\* main.py 180-198: the intent came back as detail.
TextDetail(h) ==
    /\ Returning = {}
    /\ pc[h] = "nlu"
    /\ \E pid \in PidInputs : LookupBranch(h, "detail_text", pid, detail_reply(pid))

\* main.py 200-231: the intent came back as book.
TextBook(h) ==
    /\ Returning = {}
    /\ pc[h] = "nlu"
    /\ \E pid \in PidInputs :
         LookupBranch(h, "book_text", pid, book_reply(pid, MsgSpecifyProperty))

\* main.py 369-387: the detail button of a card.
PostbackDetail(h) ==
    /\ CanDispatch(h)
    /\ \E pid \in PidInputs : LookupBranch(h, "detail_button", pid, detail_reply(pid))

\* main.py 390-420: the book button of a card.  A book_pick postback that
\* carries no datetime fails the test of main.py 291 and is taken here as
\* well, its data beginning with action=book.
PostbackBook(h) ==
    /\ CanDispatch(h)
    /\ \E pid \in PidInputs :
         LookupBranch(h, "book_button", pid, book_reply(pid, MsgPropertyNotFound))

MsgNoBookings == "You have no bookings."
MsgBookingList == "#<booking_id> - <title> at <datetime> [<status>]"
MsgPropertyResults == "Property results"
MsgMoreProperties == "More properties"

\* listing sheets of at most one row, enough for an empty and a non-empty
\* search result
SampleSheets == { sheet \in ShortSheets : Len(sheet) <= 1 }

\* main.py 148-178: the intent came back as browse or search.
TextSearch(h) ==
    /\ Returning = {}
    /\ pc[h] = "nlu"
    /\ \E sheet \in SampleSheets :
         LET props == search(sheet, NoFilters)
             m == IF props = << >> THEN MsgNoProperties ELSE MsgPropertyResults
         IN  /\ pc' = [pc EXCEPT ![h] = "done"]
             /\ loc' = [loc EXCEPT ![h].kind = "search_text", ![h].msg = m]
             /\ obs' = [obs EXCEPT ![h] = [IdleObs EXCEPT !.reply = m, !.replies = @ + 1,
                                             !.steps = << "search" >>]]
    /\ UNCHANGED << store, cache, cache_ts, now, calendar, rowCheck, serial, call >>

\* main.py 233-254: the intent came back as my_bookings.
TextMyBookings(h) ==
    /\ Returning = {}
    /\ pc[h] = "nlu"
    /\ \E user \in Users :
         LET l == list_for_user(World, now, user)
             m == IF l.rows = << >> THEN MsgNoBookings ELSE MsgBookingList
         IN  /\ SetWorld(l.w)
             /\ pc' = [pc EXCEPT ![h] = "done"]
             /\ loc' = [loc EXCEPT ![h].kind = "my_bookings", ![h].user_id = user, ![h].msg = m]
             /\ obs' = [obs EXCEPT ![h] = [IdleObs EXCEPT !.reply = m, !.replies = @ + 1,
                                             !.steps = << "list_for_user" >>]]
    /\ UNCHANGED << now, calendar, rowCheck, serial, call >>

\* main.py 448-476: the "More results" button.
PostbackMore(h) ==
    /\ CanDispatch(h)
    /\ \E sheet \in SampleSheets, cursor \in {0, PageSize} :
         LET bp == browse_page(search(sheet, NoFilters), cursor)
             m == IF bp.page = << >> THEN MsgNoMoreResults ELSE MsgMoreProperties
         IN  /\ pc' = [pc EXCEPT ![h] = "done"]
             /\ loc' = [loc EXCEPT ![h] = [IdleLoc EXCEPT !.kind = "browse_button", !.msg = m]]
             /\ obs' = [obs EXCEPT ![h] = [IdleObs EXCEPT !.reply = m, !.replies = @ + 1,
                                             !.steps = << "search" >>]]
    /\ UNCHANGED << store, cache, cache_ts, now, calendar, rowCheck, serial, call >>

\* main.py 287-476: a postback whose data begins with none of the five
\* actions runs through every test and the handler returns without a reply.
PostbackIgnored(h) ==
    /\ CanDispatch(h)
    /\ pc' = [pc EXCEPT ![h] = "done"]
    /\ loc' = [loc EXCEPT ![h] = [IdleLoc EXCEPT !.kind = "ignored"]]
    /\ obs' = [obs EXCEPT ![h] = IdleObs]
    /\ UNCHANGED << store, cache, cache_ts, now, calendar, rowCheck, serial, call >>

NextIds ==
    \/ Next
    \/ \E h \in Handlers : TextDetail(h)
    \/ \E h \in Handlers : TextBook(h)
    \/ \E h \in Handlers : TextSearch(h)
    \/ \E h \in Handlers : TextMyBookings(h)
    \/ \E h \in Handlers : PostbackDetail(h)
    \/ \E h \in Handlers : PostbackBook(h)
    \/ \E h \in Handlers : PostbackMore(h)
    \/ \E h \in Handlers : PostbackIgnored(h)

SpecIds == InitSeq /\ [][NextIds]_vars

PropertyKinds == { "book_pick", "detail_text", "detail_button", "book_text", "book_button" }

BookingKinds == { "cancel_text", "cancel_button" }

NotFoundTexts ==
    { MsgPropertyNotFound, MsgSpecifyProperty, MsgNotCancelled, MsgSpecifyBooking }

\* C26: when a handler that takes an id (detail, book, book_pick, cancel, by
\* text or by button) is given a property id that is no listing or a booking
\* id that is no row, it returns without an exception after one plain-text
\* reply, and the rows of the bookings sheet and the events of the calendar
\* are what they were.
C26_UnknownIdGetsTextReply ==
    [][\A h \in Handlers :
         ( /\ pc[h] \in {"idle", "nlu"}
           /\ pc'[h] \notin {"idle", "nlu"}
           /\ \/ /\ loc'[h].kind \in PropertyKinds
                 /\ get_by_id(loc'[h].pid) = NoneVal
              \/ /\ loc'[h].kind \in BookingKinds
                 /\ RowOf(loc'[h].bid) = 0 )
         => ( /\ pc'[h] = "done"
              /\ obs'[h].reply \in NotFoundTexts
              /\ store' = store
              /\ calendar' = calendar )]_vars

\* The cancel button was pressed for an id that is no row of a sheet that
\* has a mirrored booking.
C26_Witness ==
    /\ store # << >>
    /\ calendar # {}
    /\ \E h \in Handlers :
         /\ pc[h] = "done"
         /\ loc[h].kind = "cancel_button"
         /\ loc[h].bid # NoBid
         /\ RowOf(loc[h].bid) = 0
         /\ obs[h].reply = MsgNotCancelled

\* C27: a cancel of booking A, by text or by button, leaves in place the
\* calendar event of every other booking B that is requested or confirmed,
\* also when A was cancelled before, B was made afterwards for the same
\* property and datetime, and the cancel button of A is pressed again.
C27_CancelSparesOtherMirror ==
    [][\A h \in Handlers :
         ( /\ pc[h] \in {"idle", "nlu"}
           /\ pc'[h] = "done"
           /\ loc'[h].kind \in BookingKinds )
         => \A i \in DOMAIN store :
              ( /\ store[i].booking_id # loc'[h].bid
                /\ store'[i].status \in NonCancelled
                /\ HasMirror(i) )
              => find_event(calendar', get_calendar_id(store[i].property_id),
                            store[i].property_id, store[i].datetime) # {0}]_vars

(***************************************************************************)
(* The reminder job over a whole day (main.py 517-522): the scheduler      *)
(* fires send_reminders every 10 minutes from the start of the process on, *)
(* from before the 24-hour window of an appointment until after its 2-hour *)
(* window.  The sheet is not edited meanwhile.  got collects the reminders *)
(* pushed so far, as pairs of booking id and window.                       *)
(***************************************************************************)
ReminderRows ==
    { r \in SweepRows : r.user_id # "" /\ r.datetime.kind \in {"aware", "naive"}
                        /\ r.datetime.at = Appointment }

ReminderSheets ==
    { [i \in DOMAIN q |->
         [booking_id |-> i, user_id |-> q[i].user_id, user_display_name |-> "",
          property_id |-> "p1", datetime |-> q[i].datetime, status |-> q[i].status]] :
      q \in SeqsUpTo(ReminderRows, MaxRows) }

\* every offset of the 10-minute schedule against the appointment; the first
\* firing is more than 24 hours and 5 minutes before it
ReminderStarts == { Appointment - Mark24h - Tolerance - d : d \in 1..SweepInterval }

\* the last firing looked at: past it the appointment is less than 1 hour 55
\* minutes away and comes closer with every firing, so no later sweep can
\* find it inside either window
ReminderEnd == Appointment - Mark2h + Tolerance

InitReminders ==
    /\ store \in ReminderSheets
    /\ cache = << >>
    /\ cache_ts = 0
    /\ now \in ReminderStarts
    /\ calendar = {}
    /\ pc = [h \in Handlers |-> "idle"]
    /\ loc = [h \in Handlers |-> IdleLoc]
    /\ obs = [h \in Handlers |-> IdleObs]
    /\ rowCheck = [i \in DOMAIN store |-> 0]
    /\ serial = TRUE
    /\ \E enabled \in BOOLEAN :
         call = [op |-> "wait", enabled |-> enabled, start |-> now, at |-> now,
                 pushes |-> << >>, failed |-> FALSE, got |-> {}]

\* the job fires: one whole sweep (main.py 491-514)
ReminderJob ==
    /\ call.op = "wait"
    /\ LET ra == read_all(World, now * 60)
           sw == sweep_from(ra.rows, 1, now, call.enabled)
       IN  /\ SetWorld(ra.w)
           /\ call' = [call EXCEPT !.op = "job", !.at = now, !.pushes = sw.pushes,
                                   !.failed = sw.failed,
                                   !.got = @ \cup { << sw.pushes[k].bid, sw.pushes[k].window >> :
                                                     k \in DOMAIN sw.pushes }]
    /\ UNCHANGED now
    /\ RepoIdle

\* the interval passes until the next firing (main.py 520)
ReminderWait ==
    /\ call.op = "job"
    /\ now <= ReminderEnd
    /\ now' = now + SweepInterval
    /\ call' = [call EXCEPT !.op = "wait"]
    /\ UNCHANGED << store, cache, cache_ts >>
    /\ RepoIdle

NextReminders ==
    \/ ReminderJob
    \/ ReminderWait

\* The scheduler keeps firing the job and time keeps passing.
SpecReminders ==
    InitReminders /\ [][NextReminders]_vars
    /\ WF_vars(ReminderJob) /\ WF_vars(ReminderWait)

AllWithOffset == \A k \in DOMAIN store : store[k].datetime.kind = "aware"

\* C28: with reminders enabled and the job firing every 10 minutes, every
\* booking that is requested or confirmed and was in the sheet more than 24
\* hours and 5 minutes before its appointment is eventually pushed its 24-hour
\* reminder and its 2-hour reminder, whatever the offset of the schedule
\* against the appointment.  Stated here for sheets whose datetimes all carry
\* a UTC offset, on which no sweep is cut short.
C28_EveryBookingReminded ==
    \A i \in 1..MaxRows :
        ( /\ call.enabled
          /\ AllWithOffset
          /\ i \in DOMAIN store
          /\ store[i].status \in NonCancelled )
        ~> ( /\ << i, "24h" >> \in call.got
             /\ << i, "2h" >> \in call.got )

TextKinds ==
    { "search_text", "detail_text", "book_text", "my_bookings", "cancel_text", "fallback" }

\* C29: no handling of an event calls the transport's reply operation more
\* than once, on any branch of the text and postback handlers, and a text
\* event whose handler returned has been replied to exactly once.
C29_OneReplyPerEvent ==
    \A h \in Handlers :
        /\ obs[h].replies <= 1
        /\ (pc[h] = "done" /\ loc[h].kind \in TextKinds) => obs[h].replies = 1

\* The cancel command came without an id and the handler has returned after
\* the one reply that asks for it.
C29_Witness ==
    \E h \in Handlers :
        /\ pc[h] = "done"
        /\ loc[h].kind = "cancel_text"
        /\ loc[h].bid = NoBid
        /\ obs[h].reply = MsgSpecifyBooking
        /\ obs[h].replies = 1

\* C30: a cancel request for a booking id that is in the sheet, by text or by
\* button, marks that row cancelled and changes no other row, whoever sent
\* it: the rows afterwards are fixed by the rows before and the id alone,
\* so a request of another user leaves the sheet as the request of the
\* booking's own user would.
C30_CancelIgnoresRequester ==
    [][\A h \in Handlers :
         ( /\ pc[h] \in {"idle", "nlu"}
           /\ pc'[h] = "done"
           /\ loc'[h].kind \in BookingKinds
           /\ RowOf(loc'[h].bid) # 0 )
         => ( /\ obs'[h].ok
              /\ obs'[h].reply = MsgCancelled
              /\ store' = [store EXCEPT ![RowOf(loc'[h].bid)].status = "cancelled"] )]_vars

\* A user who is not the booking's user has cancelled it with the text
\* command.
C30_Witness ==
    \E h \in Handlers :
        /\ pc[h] = "done"
        /\ loc[h].kind = "cancel_text"
        /\ RowOf(loc[h].bid) # 0
        /\ loc[h].user_id = "u2"
        /\ store[RowOf(loc[h].bid)].user_id = "u1"
        /\ store[RowOf(loc[h].bid)].status = "cancelled"
        /\ ~obs[h].wasCancelled
        /\ obs[h].ok

Listed(pid) == \E k \in DOMAIN PropertyRows : PropertyRows[k].id = pid

\* C31: a row is added to the bookings sheet only for a property id that is
\* the id of a row of the listing sheet, active or not; a book_pick whose
\* property id is missing or unknown, and a book_pick without a datetime
\* (which is handled as the book button), return with the rows of the
\* bookings sheet and the events of the calendar as they were.
C31_RowsOnlyForListedProperty ==
    [][/\ \A i \in DOMAIN store' : i > Len(store) => Listed(store'[i].property_id)
       /\ \A e \in calendar' \ calendar : Listed(e.pid)
       /\ \A h \in Handlers :
            ( /\ pc[h] = "idle"
              /\ pc'[h] # "idle"
              /\ \/ loc'[h].kind = "book_pick" /\ ~Listed(loc'[h].pid)
                 \/ loc'[h].kind = "book_button" )
            => ( /\ pc'[h] = "done"
                 /\ store' = store
                 /\ calendar' = calendar )]_vars

\* A booking was written for the inactive listing, and in the same run a
\* book_pick for an unknown property id has been turned down.
C31_Witness ==
    /\ \E i \in DOMAIN store :
         /\ store[i].property_id = "p2"
         /\ store[i].status = "requested"
    /\ \E h \in Handlers :
         /\ pc[h] = "done"
         /\ loc[h].kind = "book_pick"
         /\ loc[h].pid = "px"
         /\ obs[h].reply = MsgPropertyNotFound
         /\ obs[h].wrote = 0
====
